---------------------------- MODULE Spec2Model ----------------------------
(***************************************************************************)
(* FlashKv: a Redis-like in-memory store (RedisDatabase) with its         *)
(* snapshot file, its RESP framer and dispatcher (RedisCommandHandler),    *)
(* its connection handler (RedisServer::handleClient) and the server with  *)
(* its thread pool and shutdown (RedisServer, ThreadPool).                 *)
(*                                                                         *)
(* Byte strings are sequences of one-character strings.  Time is the       *)
(* system clock in clock ticks; one store operation reads the clock once.  *)
(***************************************************************************)
EXTENDS Integers, Sequences, FiniteSets, Bags, TLC

VARIABLES
    kv_store,      \* RedisDatabase::kv_store    key -> string
    list_store,    \* RedisDatabase::list_store  key -> deque of strings
    hash_store,    \* RedisDatabase::hash_store  key -> (field -> string)
    expiry_map,    \* RedisDatabase::expiry_map  key -> deadline (ticks)
    last_sweep,    \* file-static last_sweep (ticks)
    now,           \* sys_clock::now() (ticks)
    requests,      \* client: the request frames it sends on the connection, in order
    sent,          \* socket: how many bytes of the requests recv has delivered
    recvs,         \* socket: how many recv calls have returned data
    buffer,        \* handleClient: the input buffer
    replies,       \* socket: the replies written by sendAll, in order
    dispatched,    \* handleClient: the frames handed to processCommand, in order
    framed,        \* handleClient: the frames returned by the splitFrames calls, in order
    conn,          \* handleClient: "idle", "reading" (in the read loop) or why it left it
    neg_int_min,   \* the build: what "-count" gives for count = INT_MIN (undefined behaviour)
    running,       \* RedisServer::running
    server_socket, \* RedisServer::server_socket: "open" or "closed"
    stopping,      \* ThreadPool::stopping
    tasks,         \* ThreadPool::tasks: the accepted clients whose handleClient waits for a worker
    worker,        \* ThreadPool::workers: per thread, waiting, serving a client, or exited
    client,        \* per client: where its handleClient stands, "none" before the connect
    peer,          \* per client: the other end of its socket, "open" or "closed"
    shut,          \* RedisServer::shutdown: "idle" (not called), "cleared", "joining", "returned"
    persistRunning, \* main.cpp: persistRunning
    dumpInProgress, \* main.cpp: dumpInProgress
    dumpMutex,     \* main.cpp: dumpMutex, the thread that holds it or "free"
    db_mutex,      \* RedisDatabase::db_mutex as dump takes it: the thread that holds it or "free"
    writing,       \* the threads that have the snapshot file open for writing
    overlapped,    \* per thread: its running dump attempt began while another dump was in progress
    snapshot,      \* the bytes of the snapshot file dump.my_rdb
    pc,            \* per thread of main.cpp (persistence thread, main, signal handler): where it stands
    active_count,  \* ThreadPool::active_count
    ran,           \* per client: the workers that have called its task, in order
    caller,        \* per caller of ThreadPool::shutdown: where it stands and the tasks accepted before its call
    sweeper,       \* per thread inside maybeFullPurge: where it stands and its local now
    sweeps,        \* the clock readings of the full sweeps executed, in order
    session        \* per client of a concurrent run: its connection, handler and the replies it has read

dbvars   == <<kv_store, list_store, hash_store, expiry_map, last_sweep, now>>
connvars == <<requests, sent, recvs, buffer, replies, dispatched, framed, conn>>
buildvars == <<neg_int_min>>
srvvars  == <<running, server_socket, stopping, tasks, worker, client, peer, shut>>
mainvars == <<persistRunning, dumpInProgress, dumpMutex, db_mutex, writing, overlapped, pc,
              snapshot>>
poolvars == <<active_count, ran, caller>>
sweepvars == <<sweeper, sweeps>>
vars     == <<kv_store, list_store, hash_store, expiry_map, last_sweep, now,
              requests, sent, recvs, buffer, replies, dispatched, framed, conn, neg_int_min,
              running, server_socket, stopping, tasks, worker, client, peer, shut,
              persistRunning, dumpInProgress, dumpMutex, db_mutex, writing, overlapped, pc,
              snapshot, active_count, ran, caller, sweeper, sweeps, session>>

---------------------------------------------------------------------------
(* Bounds of the model *)

MaxTicks   == 1     \* the clock advances at most this many half seconds
MaxListLen == 1     \* lists grow to at most this many elements
MaxCounter == 1     \* incr counts up to this value
MaxFrames  == 2     \* a client sends at most this many request frames
MaxRecv    == 3     \* a connection's bytes arrive in at most this many recv calls
MaxClients == 2     \* at most this many clients connect
NumWorkers == 2     \* the threads of the pool (hardware_concurrency)
TicksPerMs == 2     \* the clock counts this many ticks in a millisecond
NumSweepers == 2    \* the threads that call keys() at the same time
MaxSweepTicks == 3  \* while they do, the clock advances at most this many half seconds

(* Program constants *)

INT_MAX == 2147483647

\* the values a build may give to the negation of INT_MIN, a signed overflow:
\* INT_MIN again (two's complement wrap-around) or INT_MAX (saturation)
NegIntMin == {-INT_MAX - 1, INT_MAX}

SWEEP_INTERVAL == 1000    \* ms

\* a duration of n milliseconds, in clock ticks
Ms(n) == n * TicksPerMs

\* the clock advances in steps of this many milliseconds
TickMs == SWEEP_INTERVAL \div 2

---------------------------------------------------------------------------
(* Finite maps (std::unordered_map) *)

EmptyMap == << >>

Has(m, k) == k \in DOMAIN m

Erase(m, k) == [x \in DOMAIN m \ {k} |-> m[x]]

Put(m, k, v) == [x \in DOMAIN m \cup {k} |-> IF x = k THEN v ELSE m[x]]

---------------------------------------------------------------------------
(* Byte strings *)

Digits == <<"0", "1", "2", "3", "4", "5", "6", "7", "8", "9">>

IsDigit(c) == \E i \in 1..10 : Digits[i] = c

DigitVal(c) == (CHOOSE i \in 1..10 : Digits[i] = c) - 1

IsSpace(c) == c \in {" ", "\t", "\r", "\n", "\f"}

RECURSIVE to_string_nat(_)
to_string_nat(n) ==
    IF n < 10 THEN <<Digits[n + 1]>>
    ELSE to_string_nat(n \div 10) \o <<Digits[(n % 10) + 1]>>

\* std::to_string on an integer
to_string(n) == IF n < 0 THEN <<"-">> \o to_string_nat(-n) ELSE to_string_nat(n)

RECURSIVE SkipSpace(_)
SkipSpace(s) == IF s # << >> /\ IsSpace(Head(s)) THEN SkipSpace(Tail(s)) ELSE s

RECURSIVE ParseDigits(_, _)
ParseDigits(s, acc) ==
    IF s # << >> /\ IsDigit(Head(s))
    THEN ParseDigits(Tail(s), acc * 10 + DigitVal(Head(s)))
    ELSE acc

\* std::stoi / std::stoll: leading white space, an optional sign, then digits;
\* what follows the digits is ignored; no digit at all throws.
StrToInt(s) ==
    LET t    == SkipSpace(s)
        neg  == t # << >> /\ Head(t) = "-"
        sgn  == t # << >> /\ Head(t) \in {"-", "+"}
        d    == IF sgn THEN Tail(t) ELSE t
    IN  IF d = << >> \/ ~IsDigit(Head(d))
        THEN [ok |-> FALSE, val |-> 0]
        ELSE [ok |-> TRUE, val |-> IF neg THEN -ParseDigits(d, 0) ELSE ParseDigits(d, 0)]

RECURSIVE TrimRight(_)
TrimRight(s) ==
    IF s # << >> /\ s[Len(s)] \in {" ", "\t", "\r", "\n"}
    THEN TrimRight(SubSeq(s, 1, Len(s) - 1)) ELSE s

RECURSIVE TrimLeft(_)
TrimLeft(s) ==
    IF s # << >> /\ Head(s) \in {" ", "\t", "\r", "\n"} THEN TrimLeft(Tail(s)) ELSE s

\* the trim lambda of incr
trim(s) == TrimRight(TrimLeft(s))

---------------------------------------------------------------------------
(* The reply texts and the command names, byte by byte *)

\* the error replies of the command handlers
Err ==
    [EmptyCommand |-> <<"-", "E", "r", "r", "o", "r", ":", " ", "E", "m", "p", "t", "y",
         " ", "c", "o", "m", "m", "a", "n", "d", "\r", "\n">>,
     UnknownCommand |-> <<"-", "E", "r", "r", "o", "r", ":", " ", "U", "n", "k", "n", "o",
         "w", "n", " ", "c", "o", "m", "m", "a", "n", "d", "\r", "\n">>,
     EchoArgs |-> <<"-", "E", "r", "r", "o", "r", ":", " ", "E", "C", "H", "O", " ", "r",
         "e", "q", "u", "i", "r", "e", "s", " ", "a", " ", "m", "e", "s", "s", "a",
         "g", "e", "\r", "\n">>,
     SetArgs |-> <<"-", "E", "r", "r", "o", "r", ":", " ", "S", "E", "T", " ", "r", "e",
         "q", "u", "i", "r", "e", "s", " ", "k", "e", "y", " ", "a", "n", "d", " ",
         "v", "a", "l", "u", "e", "\r", "\n">>,
     GetArgs |-> <<"-", "E", "r", "r", "o", "r", ":", " ", "G", "E", "T", " ", "r", "e",
         "q", "u", "i", "r", "e", "s", " ", "k", "e", "y", "\r", "\n">>,
     DelArgs |-> <<"-", "E", "r", "r", "o", "r", ":", " ", "D", "E", "L", " ", "r", "e",
         "q", "u", "i", "r", "e", "s", " ", "k", "e", "y", "\r", "\n">>,
     TypeArgs |-> <<"-", "E", "r", "r", "o", "r", ":", " ", "T", "Y", "P", "E", " ", "r",
         "e", "q", "u", "i", "r", "e", "s", " ", "k", "e", "y", "\r", "\n">>,
     ExpireArgs |-> <<"-", "E", "r", "r", "o", "r", ":", " ", "E", "X", "P", "I", "R", "E",
         " ", "r", "e", "q", "u", "i", "r", "e", "s", " ", "k", "e", "y", " ", "a",
         "n", "d", " ", "t", "i", "m", "e", "\r", "\n">>,
     KeyNotFound |-> <<"-", "E", "r", "r", "o", "r", ":", " ", "K", "e", "y", " ", "n", "o",
         "t", " ", "f", "o", "u", "n", "d", "\r", "\n">>,
     InvalidExpire |-> <<"-", "E", "r", "r", "o", "r", ":", " ", "I", "n", "v", "a", "l",
         "i", "d", " ", "e", "x", "p", "i", "r", "a", "t", "i", "o", "n", " ", "t",
         "i", "m", "e", "\r", "\n">>,
     RenameArgs |-> <<"-", "E", "r", "r", "o", "r", ":", " ", "R", "E", "N", "A", "M", "E",
         " ", "r", "e", "q", "u", "i", "r", "e", "s", " ", "o", "l", "d", " ", "a",
         "n", "d", " ", "n", "e", "w", " ", "k", "e", "y", "\r", "\n">>,
     RenameFailed |-> <<"-", "E", "r", "r", "o", "r", ":", " ", "R", "e", "n", "a", "m",
         "e", " ", "f", "a", "i", "l", "e", "d", "\r", "\n">>,
     LpushArgs |-> <<"-", "E", "r", "r", "o", "r", ":", " ", "L", "P", "U", "S", "H", " ",
         "r", "e", "q", "u", "i", "r", "e", "s", " ", "k", "e", "y", " ", "a", "n",
         "d", " ", "v", "a", "l", "u", "e", "s", "\r", "\n">>,
     RpushArgs |-> <<"-", "E", "r", "r", "o", "r", ":", " ", "R", "P", "U", "S", "H", " ",
         "r", "e", "q", "u", "i", "r", "e", "s", " ", "k", "e", "y", " ", "a", "n",
         "d", " ", "v", "a", "l", "u", "e", "s", "\r", "\n">>,
     LpopArgs |-> <<"-", "E", "r", "r", "o", "r", ":", " ", "L", "P", "O", "P", " ", "r",
         "e", "q", "u", "i", "r", "e", "s", " ", "k", "e", "y", "\r", "\n">>,
     RpopArgs |-> <<"-", "E", "r", "r", "o", "r", ":", " ", "R", "P", "O", "P", " ", "r",
         "e", "q", "u", "i", "r", "e", "s", " ", "k", "e", "y", "\r", "\n">>,
     LlenArgs |-> <<"-", "E", "r", "r", "o", "r", ":", " ", "L", "L", "E", "N", " ", "r",
         "e", "q", "u", "i", "r", "e", "s", " ", "k", "e", "y", "\r", "\n">>,
     LgetArgs |-> <<"-", "E", "r", "r", "o", "r", ":", " ", "L", "G", "E", "T", " ", "r",
         "e", "q", "u", "i", "r", "e", "s", " ", "k", "e", "y", "\r", "\n">>,
     LremArgs |-> <<"-", "E", "r", "r", "o", "r", ":", " ", "L", "R", "E", "M", " ", "r",
         "e", "q", "u", "i", "r", "e", "s", " ", "k", "e", "y", ",", " ", "c", "o",
         "u", "n", "t", " ", "a", "n", "d", " ", "v", "a", "l", "u", "e", "\r", "\n">>,
     InvalidCount |-> <<"-", "E", "r", "r", "o", "r", ":", " ", "I", "n", "v", "a", "l",
         "i", "d", " ", "c", "o", "u", "n", "t", "\r", "\n">>,
     LindexArgs |-> <<"-", "E", "r", "r", "o", "r", ":", " ", "L", "I", "N", "D", "E", "X",
         " ", "r", "e", "q", "u", "i", "r", "e", "s", " ", "k", "e", "y", " ", "a",
         "n", "d", " ", "i", "n", "d", "e", "x", "\r", "\n">>,
     InvalidIndex |-> <<"-", "E", "r", "r", "o", "r", ":", " ", "I", "n", "v", "a", "l",
         "i", "d", " ", "i", "n", "d", "e", "x", "\r", "\n">>,
     LsetArgs |-> <<"-", "E", "r", "r", "o", "r", ":", " ", "L", "S", "E", "T", " ", "r",
         "e", "q", "u", "i", "r", "e", "s", " ", "k", "e", "y", ",", " ", "i", "n",
         "d", "e", "x", " ", "a", "n", "d", " ", "v", "a", "l", "u", "e", "\r", "\n">>,
     IndexRange |-> <<"-", "E", "r", "r", "o", "r", ":", " ", "I", "n", "d", "e", "x", " ",
         "o", "u", "t", " ", "o", "f", " ", "r", "a", "n", "g", "e", "\r", "\n">>,
     HsetArgs |-> <<"-", "E", "r", "r", "o", "r", ":", " ", "H", "S", "E", "T", " ", "r",
         "e", "q", "u", "i", "r", "e", "s", " ", "k", "e", "y", ",", " ", "f", "i",
         "e", "l", "d", " ", "a", "n", "d", " ", "v", "a", "l", "u", "e", "\r", "\n">>,
     HgetArgs |-> <<"-", "E", "r", "r", "o", "r", ":", " ", "H", "G", "E", "T", " ", "r",
         "e", "q", "u", "i", "r", "e", "s", " ", "k", "e", "y", " ", "a", "n", "d",
         " ", "f", "i", "e", "l", "d", "\r", "\n">>,
     HexistsArgs |-> <<"-", "E", "r", "r", "o", "r", ":", " ", "H", "E", "X", "I", "S", "T",
         "S", " ", "r", "e", "q", "u", "i", "r", "e", "s", " ", "k", "e", "y", " ",
         "a", "n", "d", " ", "f", "i", "e", "l", "d", "\r", "\n">>,
     HdelArgs |-> <<"-", "E", "r", "r", "o", "r", ":", " ", "H", "D", "E", "L", " ", "r",
         "e", "q", "u", "i", "r", "e", "s", " ", "k", "e", "y", " ", "a", "n", "d",
         " ", "f", "i", "e", "l", "d", "\r", "\n">>,
     HgetallArgs |-> <<"-", "E", "r", "r", "o", "r", ":", " ", "H", "G", "E", "T", "A", "L",
         "L", " ", "r", "e", "q", "u", "i", "r", "e", "s", " ", "k", "e", "y", "\r",
         "\n">>,
     HkeysArgs |-> <<"-", "E", "r", "r", "o", "r", ":", " ", "H", "K", "E", "Y", "S", " ",
         "r", "e", "q", "u", "i", "r", "e", "s", " ", "k", "e", "y", "\r", "\n">>,
     HvalsArgs |-> <<"-", "E", "r", "r", "o", "r", ":", " ", "H", "V", "A", "L", "S", " ",
         "r", "e", "q", "u", "i", "r", "e", "s", " ", "k", "e", "y", "\r", "\n">>,
     HlenArgs |-> <<"-", "E", "r", "r", "o", "r", ":", " ", "H", "L", "E", "N", " ", "r",
         "e", "q", "u", "i", "r", "e", "s", " ", "k", "e", "y", "\r", "\n">>,
     HmsetArgs |-> <<"-", "E", "r", "r", "o", "r", ":", " ", "H", "M", "S", "E", "T", " ",
         "r", "e", "q", "u", "i", "r", "e", "s", " ", "f", "i", "e", "l", "d", "-",
         "v", "a", "l", "u", "e", " ", "p", "a", "i", "r", "s", "\r", "\n">>]

\* the command names processCommand compares with
Cmd ==
    [PING |-> <<"P", "I", "N", "G">>,
     ECHO |-> <<"E", "C", "H", "O">>,
     SET |-> <<"S", "E", "T">>,
     GET |-> <<"G", "E", "T">>,
     DEL |-> <<"D", "E", "L">>,
     UNLINK |-> <<"U", "N", "L", "I", "N", "K">>,
     FLUSHALL |-> <<"F", "L", "U", "S", "H", "A", "L", "L">>,
     KEYS |-> <<"K", "E", "Y", "S">>,
     TYPE |-> <<"T", "Y", "P", "E">>,
     EXPIRE |-> <<"E", "X", "P", "I", "R", "E">>,
     RENAME |-> <<"R", "E", "N", "A", "M", "E">>,
     LPUSH |-> <<"L", "P", "U", "S", "H">>,
     RPUSH |-> <<"R", "P", "U", "S", "H">>,
     LPOP |-> <<"L", "P", "O", "P">>,
     RPOP |-> <<"R", "P", "O", "P">>,
     LLEN |-> <<"L", "L", "E", "N">>,
     LGET |-> <<"L", "G", "E", "T">>,
     LREM |-> <<"L", "R", "E", "M">>,
     LINDEX |-> <<"L", "I", "N", "D", "E", "X">>,
     LSET |-> <<"L", "S", "E", "T">>,
     HSET |-> <<"H", "S", "E", "T">>,
     HGET |-> <<"H", "G", "E", "T">>,
     HEXISTS |-> <<"H", "E", "X", "I", "S", "T", "S">>,
     HDEL |-> <<"H", "D", "E", "L">>,
     HGETALL |-> <<"H", "G", "E", "T", "A", "L", "L">>,
     HKEYS |-> <<"H", "K", "E", "Y", "S">>,
     HVALS |-> <<"H", "V", "A", "L", "S">>,
     HLEN |-> <<"H", "L", "E", "N">>,
     HMSET |-> <<"H", "M", "S", "E", "T">>]

\* the words of the replies
Txt ==
    [OK |-> <<"O", "K">>,
     PONG |-> <<"P", "O", "N", "G">>,
     None |-> <<"n", "o", "n", "e">>,
     String |-> <<"s", "t", "r", "i", "n", "g">>,
     List |-> <<"l", "i", "s", "t">>,
     Hash |-> <<"h", "a", "s", "h">>]

ErrPayloadTooLarge ==
    <<"-", "E", "R", "R", " ", "p", "a", "y", "l", "o", "a", "d", " ", "t", "o", "o", " ",
      "l", "a", "r", "g", "e", "\r", "\n">>

Lower ==
    <<"a", "b", "c", "d", "e", "f", "g", "h", "i", "j", "k", "l", "m", "n", "o", "p", "q",
      "r", "s", "t", "u", "v", "w", "x", "y", "z">>

Upper ==
    <<"A", "B", "C", "D", "E", "F", "G", "H", "I", "J", "K", "L", "M", "N", "O", "P", "Q",
      "R", "S", "T", "U", "V", "W", "X", "Y", "Z">>

---------------------------------------------------------------------------
(* RedisDatabase.  Every operation is an operator from the store (a record *)
(* of the four maps) and the clock reading t to the new store and the      *)
(* value returned.                                                         *)

DB == [kv_store |-> kv_store, list_store |-> list_store,
       hash_store |-> hash_store, expiry_map |-> expiry_map]

EmptyDB == [kv_store |-> EmptyMap, list_store |-> EmptyMap,
            hash_store |-> EmptyMap, expiry_map |-> EmptyMap]

tp_expired(tp, t) == t >= tp

fastErase(db, key) ==
    IF Has(db.kv_store, key) THEN [db EXCEPT !.kv_store = Erase(@, key)]
    ELSE IF Has(db.list_store, key) THEN [db EXCEPT !.list_store = Erase(@, key)]
    ELSE [db EXCEPT !.hash_store = Erase(@, key)]

checkExpired(db, key, t) ==
    IF Has(db.expiry_map, key) /\ tp_expired(db.expiry_map[key], t)
    THEN [db  |-> [fastErase(db, key) EXCEPT !.expiry_map = Erase(@, key)],
          ret |-> TRUE]
    ELSE [db |-> db, ret |-> FALSE]

RECURSIVE purgeKeys(_, _)
purgeKeys(db, ks) ==
    IF ks = {} THEN db
    ELSE LET k == CHOOSE x \in ks : TRUE
         IN  purgeKeys([fastErase(db, k) EXCEPT !.expiry_map = Erase(@, k)], ks \ {k})

purgeExpired_locked(db, t) ==
    purgeKeys(db, {k \in DOMAIN db.expiry_map : tp_expired(db.expiry_map[k], t)})

\* returns the store and the new last_sweep
maybeFullPurge(db, sweep, t) ==
    IF t - sweep < Ms(SWEEP_INTERVAL)
    THEN [db |-> db, last_sweep |-> sweep]
    ELSE [db |-> purgeExpired_locked(db, t), last_sweep |-> t]

flushAll(db) == [db |-> EmptyDB, ret |-> TRUE]

set(db, key, value) ==
    [db |-> [db EXCEPT !.kv_store = Put(@, key, value)], ret |-> "void"]

get(db, key, t) ==
    LET c == checkExpired(db, key, t)
    IN  IF c.ret THEN [db |-> c.db, ret |-> FALSE, value |-> << >>]
        ELSE IF ~Has(c.db.kv_store, key) THEN [db |-> c.db, ret |-> FALSE, value |-> << >>]
        ELSE [db |-> c.db, ret |-> TRUE, value |-> c.db.kv_store[key]]

\* a variant of del that leaves the key's expiry entry in place
del_keeps_expiry(db, key) ==
    [db  |-> [kv_store   |-> Erase(db.kv_store, key),
              list_store |-> Erase(db.list_store, key),
              hash_store |-> Erase(db.hash_store, key),
              expiry_map |-> db.expiry_map],
     ret |-> Has(db.kv_store, key) \/ Has(db.list_store, key) \/ Has(db.hash_store, key)]

del(db, key) ==
    [db  |-> [kv_store   |-> Erase(db.kv_store, key),
              list_store |-> Erase(db.list_store, key),
              hash_store |-> Erase(db.hash_store, key),
              expiry_map |-> Erase(db.expiry_map, key)],
     ret |-> Has(db.kv_store, key) \/ Has(db.list_store, key) \/ Has(db.hash_store, key)]

\* the vector returned by keys(), as a bag: the order is the maps' iteration order
keys(db, sweep, t) ==
    LET p == maybeFullPurge(db, sweep, t)
    IN  [db  |-> p.db, last_sweep |-> p.last_sweep,
         ret |-> SetToBag(DOMAIN p.db.kv_store) (+) SetToBag(DOMAIN p.db.list_store)
                 (+) SetToBag(DOMAIN p.db.hash_store)]

type(db, key, t) ==
    LET c == checkExpired(db, key, t)
    IN  IF c.ret THEN [db |-> c.db, ret |-> Txt.None]
        ELSE IF Has(c.db.kv_store, key) THEN [db |-> c.db, ret |-> Txt.String]
        ELSE IF Has(c.db.list_store, key) THEN [db |-> c.db, ret |-> Txt.List]
        ELSE IF Has(c.db.hash_store, key) THEN [db |-> c.db, ret |-> Txt.Hash]
        ELSE [db |-> c.db, ret |-> Txt.None]

Exists(db, key) ==
    Has(db.kv_store, key) \/ Has(db.list_store, key) \/ Has(db.hash_store, key)

expire(db, key, seconds, t) ==
    IF ~Exists(db, key) THEN [db |-> db, ret |-> FALSE]
    ELSE [db  |-> [db EXCEPT !.expiry_map = Put(@, key, t + Ms(seconds * 1000))],
          ret |-> TRUE]

\* a variant of ttl that answers for a key without an expiry entry without
\* looking whether a store holds the key
ttl_without_lookup(db, key, t) ==
    IF ~Has(db.expiry_map, key)
    THEN [db |-> db, ret |-> -1]
    ELSE IF tp_expired(db.expiry_map[key], t)
    THEN [db |-> [fastErase(db, key) EXCEPT !.expiry_map = Erase(@, key)], ret |-> -2]
    ELSE [db |-> db, ret |-> (db.expiry_map[key] - t) \div Ms(1000)]

\* the two clock reads of ttl (in tp_expired and in the return statement) are
\* one instant t: the deadline is ahead of t where the division is reached
ttl(db, key, t) ==
    IF ~Has(db.expiry_map, key)
    THEN [db |-> db, ret |-> IF Exists(db, key) THEN -1 ELSE -2]
    ELSE IF tp_expired(db.expiry_map[key], t)
    THEN [db |-> [fastErase(db, key) EXCEPT !.expiry_map = Erase(@, key)], ret |-> -2]
    ELSE [db |-> db, ret |-> (db.expiry_map[key] - t) \div Ms(1000)]

\* one "if (find(oldKey)) { m[newKey] = move; m.erase(it) }" block of rename
MoveKey(m, oldKey, newKey) ==
    IF Has(m, oldKey) THEN Erase(Put(m, newKey, m[oldKey]), oldKey) ELSE m

rename(db, oldKey, newKey) ==
    LET d0 == [fastErase(db, newKey) EXCEPT !.expiry_map = Erase(@, newKey)]
    IN  [db  |-> [kv_store   |-> MoveKey(d0.kv_store, oldKey, newKey),
                  list_store |-> MoveKey(d0.list_store, oldKey, newKey),
                  hash_store |-> MoveKey(d0.hash_store, oldKey, newKey),
                  expiry_map |-> MoveKey(d0.expiry_map, oldKey, newKey)],
         ret |-> Exists(d0, oldKey)]

---------------------------------------------------------------------------
(* List operations *)

lget(db, key, t) ==
    LET c == checkExpired(db, key, t)
    IN  IF c.ret \/ ~Has(c.db.list_store, key) THEN [db |-> c.db, ret |-> << >>]
        ELSE [db |-> c.db, ret |-> c.db.list_store[key]]

llen(db, key, t) ==
    LET c == checkExpired(db, key, t)
    IN  IF c.ret \/ ~Has(c.db.list_store, key) THEN [db |-> c.db, ret |-> 0]
        ELSE [db |-> c.db, ret |-> Len(c.db.list_store[key])]

\* list_store[key]: operator[] creates an empty deque for a missing key
ListAt(db, key) == IF Has(db.list_store, key) THEN db.list_store[key] ELSE << >>

\* a variant of lpush that adds the value at the tail
lpush_at_tail(db, key, value, t) ==
    LET c == checkExpired(db, key, t)
    IN  [db  |-> [c.db EXCEPT !.list_store = Put(@, key, Append(ListAt(c.db, key), value))],
         ret |-> "void"]

lpush(db, key, value, t) ==
    LET c == checkExpired(db, key, t)
    IN  [db  |-> [c.db EXCEPT !.list_store = Put(@, key, <<value>> \o ListAt(c.db, key))],
         ret |-> "void"]

rpush(db, key, value, t) ==
    LET c == checkExpired(db, key, t)
    IN  [db  |-> [c.db EXCEPT !.list_store = Put(@, key, Append(ListAt(c.db, key), value))],
         ret |-> "void"]

\* the forward loops of lrem: drop the first `limit` elements equal to value
\* (every one of them when limit < 0)
RECURSIVE RemoveFromHead(_, _, _)
RemoveFromHead(lst, value, limit) ==
    IF lst = << >> THEN [list |-> << >>, removed |-> 0]
    ELSE IF Head(lst) = value /\ limit # 0
    THEN LET r == RemoveFromHead(Tail(lst), value, limit - 1)
         IN  [list |-> r.list, removed |-> r.removed + 1]
    ELSE LET r == RemoveFromHead(Tail(lst), value, limit)
         IN  [list |-> <<Head(lst)>> \o r.list, removed |-> r.removed]

\* the reverse loop of lrem: drop the last `target` elements equal to value
RECURSIVE RemoveFromTail(_, _, _)
RemoveFromTail(lst, value, target) ==
    IF lst = << >> THEN [list |-> << >>, removed |-> 0]
    ELSE LET n == Len(lst)
         IN  IF lst[n] = value /\ target > 0
             THEN LET r == RemoveFromTail(SubSeq(lst, 1, n - 1), value, target - 1)
                  IN  [list |-> r.list, removed |-> r.removed + 1]
             ELSE LET r == RemoveFromTail(SubSeq(lst, 1, n - 1), value, target)
                  IN  [list |-> Append(r.list, lst[n]), removed |-> r.removed]

lrem(db, key, count, value, t) ==
    LET c == checkExpired(db, key, t)
    IN  IF c.ret \/ ~Has(c.db.list_store, key) THEN [db |-> c.db, ret |-> 0]
        ELSE LET lst == c.db.list_store[key]
                 \* int target = -count
                 target == IF count = -INT_MAX - 1 THEN neg_int_min ELSE -count
                 r   == IF count = 0 THEN RemoveFromHead(lst, value, -1)
                        ELSE IF count > 0 THEN RemoveFromHead(lst, value, count)
                        ELSE RemoveFromTail(lst, value, target)
             IN  [db  |-> [c.db EXCEPT !.list_store = Put(@, key, r.list)],
                  ret |-> r.removed]

lpop(db, key, t) ==
    LET c == checkExpired(db, key, t)
    IN  IF c.ret \/ ~Has(c.db.list_store, key) \/ ListAt(c.db, key) = << >>
        THEN [db |-> c.db, ret |-> FALSE, value |-> << >>]
        ELSE [db    |-> [c.db EXCEPT !.list_store = Put(@, key, Tail(c.db.list_store[key]))],
              ret   |-> TRUE,
              value |-> Head(c.db.list_store[key])]

rpop(db, key, t) ==
    LET c == checkExpired(db, key, t)
    IN  IF c.ret \/ ~Has(c.db.list_store, key) \/ ListAt(c.db, key) = << >>
        THEN [db |-> c.db, ret |-> FALSE, value |-> << >>]
        ELSE LET lst == c.db.list_store[key]
             IN  [db    |-> [c.db EXCEPT !.list_store =
                                 Put(@, key, SubSeq(lst, 1, Len(lst) - 1))],
                  ret   |-> TRUE,
                  value |-> lst[Len(lst)]]

\* "if (index < 0) index += sz", then the range test; 0-based
NormIndex(index, sz) == IF index < 0 THEN index + sz ELSE index

lindex(db, key, index, t) ==
    LET c == checkExpired(db, key, t)
    IN  IF c.ret \/ ~Has(c.db.list_store, key)
        THEN [db |-> c.db, ret |-> FALSE, value |-> << >>]
        ELSE LET lst == c.db.list_store[key]
                 i   == NormIndex(index, Len(lst))
             IN  IF i < 0 \/ i >= Len(lst)
                 THEN [db |-> c.db, ret |-> FALSE, value |-> << >>]
                 ELSE [db |-> c.db, ret |-> TRUE, value |-> lst[i + 1]]

lset(db, key, index, value, t) ==
    LET c == checkExpired(db, key, t)
    IN  IF c.ret \/ ~Has(c.db.list_store, key) THEN [db |-> c.db, ret |-> FALSE]
        ELSE LET lst == c.db.list_store[key]
                 i   == NormIndex(index, Len(lst))
             IN  IF i < 0 \/ i >= Len(lst) THEN [db |-> c.db, ret |-> FALSE]
                 ELSE [db  |-> [c.db EXCEPT !.list_store =
                                    Put(@, key, [lst EXCEPT ![i + 1] = value])],
                       ret |-> TRUE]

---------------------------------------------------------------------------
(* Hash operations *)

\* hash_store[key]: operator[] creates an empty hash for a missing key
HashAt(db, key) == IF Has(db.hash_store, key) THEN db.hash_store[key] ELSE EmptyMap

\* a variant of hset that keeps the value of a field that exists
hset_keeps_old(db, key, field, value, t) ==
    LET c == checkExpired(db, key, t)
        h == HashAt(c.db, key)
    IN  [db  |-> [c.db EXCEPT !.hash_store =
                      Put(@, key, IF Has(h, field) THEN h ELSE Put(h, field, value))],
         ret |-> TRUE]

hset(db, key, field, value, t) ==
    LET c == checkExpired(db, key, t)
    IN  [db  |-> [c.db EXCEPT !.hash_store = Put(@, key, Put(HashAt(c.db, key), field, value))],
         ret |-> TRUE]

hget(db, key, field, t) ==
    LET c == checkExpired(db, key, t)
    IN  IF c.ret \/ ~Has(c.db.hash_store, key) \/ ~Has(HashAt(c.db, key), field)
        THEN [db |-> c.db, ret |-> FALSE, value |-> << >>]
        ELSE [db |-> c.db, ret |-> TRUE, value |-> c.db.hash_store[key][field]]

hexists(db, key, field, t) ==
    LET c == checkExpired(db, key, t)
    IN  [db  |-> c.db,
         ret |-> ~c.ret /\ Has(c.db.hash_store, key) /\ Has(HashAt(c.db, key), field)]

hdel(db, key, field, t) ==
    LET c == checkExpired(db, key, t)
    IN  IF c.ret \/ ~Has(c.db.hash_store, key) THEN [db |-> c.db, ret |-> FALSE]
        ELSE [db  |-> [c.db EXCEPT !.hash_store =
                           Put(@, key, Erase(c.db.hash_store[key], field))],
              ret |-> Has(c.db.hash_store[key], field)]

hgetall(db, key, t) ==
    LET c == checkExpired(db, key, t)
    IN  [db |-> c.db, ret |-> IF c.ret THEN EmptyMap ELSE HashAt(c.db, key)]

\* the vectors of hkeys and hvals, as bags: the order is the map's iteration order
hkeys(db, key, t) ==
    LET c == checkExpired(db, key, t)
    IN  [db |-> c.db, ret |-> IF c.ret THEN EmptyBag ELSE SetToBag(DOMAIN HashAt(c.db, key))]

hvals(db, key, t) ==
    LET c == checkExpired(db, key, t)
        h == IF c.ret THEN EmptyMap ELSE HashAt(c.db, key)
        vs == {h[f] : f \in DOMAIN h}
    IN  [db |-> c.db, ret |-> [v \in vs |-> Cardinality({f \in DOMAIN h : h[f] = v})]]

hlen(db, key, t) ==
    LET c == checkExpired(db, key, t)
    IN  [db |-> c.db, ret |-> IF c.ret THEN 0 ELSE Cardinality(DOMAIN HashAt(c.db, key))]

RECURSIVE PutAll(_, _)
PutAll(mp, fv) ==
    IF fv = << >> THEN mp ELSE PutAll(Put(mp, Head(fv)[1], Head(fv)[2]), Tail(fv))

hmset(db, key, fv, t) ==
    LET c == checkExpired(db, key, t)
    IN  IF c.ret /\ fv = << >> THEN [db |-> c.db, ret |-> TRUE]
        ELSE [db  |-> [c.db EXCEPT !.hash_store = Put(@, key, PutAll(HashAt(c.db, key), fv))],
              ret |-> TRUE]

---------------------------------------------------------------------------
(* INCR *)

incr(db, key, t) ==
    LET c == checkExpired(db, key, t)
    IN  IF ~Has(c.db.kv_store, key)
        THEN [db |-> [c.db EXCEPT !.kv_store = Put(@, key, <<"1">>)], ret |-> TRUE, value |-> 1]
        ELSE LET p == StrToInt(trim(c.db.kv_store[key]))
             IN  IF ~p.ok THEN [db |-> c.db, ret |-> FALSE, value |-> 0]
                 ELSE [db  |-> [c.db EXCEPT !.kv_store = Put(@, key, to_string(p.val + 1))],
                       ret |-> TRUE, value |-> p.val + 1]

---------------------------------------------------------------------------
(* RedisCommandHandler: the framer and the parser.  Positions are the      *)
(* 0-based positions of the C++ code; byte i of a buffer is buf[i + 1].    *)

npos == -1

CharAt(buf, i) == buf[i + 1]

\* buf.substr(pos, n)
Substr(buf, pos, n) == SubSeq(buf, pos + 1, pos + n)

\* buf.find("\r\n", pos)
RECURSIVE FindCRLF(_, _)
FindCRLF(buf, pos) ==
    IF pos + 1 >= Len(buf) THEN npos
    ELSE IF CharAt(buf, pos) = "\r" /\ CharAt(buf, pos + 1) = "\n" THEN pos
    ELSE FindCRLF(buf, pos + 1)

\* std::stoi: std::stoll narrowed to int, out of range throws
stoi(s) ==
    LET p == StrToInt(s)
    IN  IF p.ok /\ p.val <= INT_MAX /\ p.val >= -INT_MAX - 1 THEN p
        ELSE [ok |-> FALSE, val |-> 0]

\* a bulk loop that does not wait for the payload: a bulk whose bytes have not
\* all arrived ends where the buffer ends
RECURSIVE ScanBulks_short(_, _, _, _)
ScanBulks_short(buf, cursor, i, elements) ==
    IF i >= elements THEN cursor
    ELSE IF cursor >= Len(buf) \/ CharAt(buf, cursor) # "$" THEN npos
    ELSE LET rn2 == FindCRLF(buf, cursor + 1)
         IN  IF rn2 = npos THEN npos
             ELSE LET len == stoi(Substr(buf, cursor + 1, rn2 - cursor - 1))
                      end == rn2 + 2 + len.val + 2
                  IN  IF ~len.ok THEN npos
                      ELSE IF end < 0 \/ end > Len(buf)
                      THEN ScanBulks_short(buf, Len(buf), i + 1, elements)
                      ELSE ScanBulks_short(buf, end, i + 1, elements)

\* the for loop of splitFrames over the bulk strings of one frame, from bulk i
\* with the cursor at `cursor`: the cursor behind the last bulk, or npos when
\* the frame is not complete (valid = false).  The sum cursor + size_t(len) + 2
\* is computed modulo 2^64: a negative sum is a huge position, past the buffer.
RECURSIVE ScanBulks(_, _, _, _)
ScanBulks(buf, cursor, i, elements) ==
    IF i >= elements THEN cursor
    ELSE IF cursor >= Len(buf) \/ CharAt(buf, cursor) # "$" THEN npos
    ELSE LET rn2 == FindCRLF(buf, cursor + 1)
         IN  IF rn2 = npos THEN npos
             ELSE LET len == stoi(Substr(buf, cursor + 1, rn2 - cursor - 1))
                      end == rn2 + 2 + len.val + 2
                  IN  IF ~len.ok THEN npos
                      ELSE IF end < 0 \/ end > Len(buf) THEN npos
                      ELSE ScanBulks(buf, end, i + 1, elements)

\* the while loop of splitFrames from position pos
RECURSIVE SplitFrom(_, _)
SplitFrom(buf, pos) ==
    IF pos >= Len(buf) THEN << >>
    ELSE IF CharAt(buf, pos) # "*" THEN << >>
    ELSE LET rn == FindCRLF(buf, pos)
         IN  IF rn = npos THEN << >>
             ELSE LET elements == stoi(Substr(buf, pos + 1, rn - pos - 1))
                      cursor   == IF elements.ok
                                  THEN ScanBulks(buf, rn + 2, 0, elements.val)
                                  ELSE npos
                  IN  IF cursor = npos THEN << >>
                      ELSE <<Substr(buf, pos, cursor - pos)>> \o SplitFrom(buf, cursor)

splitFrames(buf) == SplitFrom(buf, 0)

\* the white-space split of parseRespViews (the input does not start with '*')
RECURSIVE SplitWords(_, _)
SplitWords(input, word) ==
    IF input = << >> THEN (IF word = << >> THEN << >> ELSE <<word>>)
    ELSE IF IsSpace(Head(input))
    THEN (IF word = << >> THEN << >> ELSE <<word>>) \o SplitWords(Tail(input), << >>)
    ELSE SplitWords(Tail(input), Append(word, Head(input)))

\* the for loop of parseRespViews over the bulk strings, from bulk i at pos
RECURSIVE ParseBulks(_, _, _, _)
ParseBulks(input, pos, i, elements) ==
    IF i >= elements THEN << >>
    ELSE IF pos >= Len(input) \/ CharAt(input, pos) # "$" THEN << >>
    ELSE LET crlf == FindCRLF(input, pos + 1)
         IN  IF crlf = npos THEN << >>
             ELSE LET len   == stoi(Substr(input, pos + 1, crlf - pos - 1))
                      start == crlf + 2
                  IN  IF ~len.ok THEN << >>
                      ELSE IF start + len.val < 0 \/ start + len.val > Len(input) THEN << >>
                      ELSE <<Substr(input, start, len.val)>>
                           \o ParseBulks(input, start + len.val + 2, i + 1, elements)

parseRespViews(input) ==
    IF input = << >> THEN << >>
    ELSE IF Head(input) # "*" THEN SplitWords(input, << >>)
    ELSE LET crlf == FindCRLF(input, 1)
         IN  IF crlf = npos THEN << >>
             ELSE LET elements == stoi(Substr(input, 1, crlf - 1))
                  IN  IF ~elements.ok \/ elements.val <= 0 THEN << >>
                      ELSE ParseBulks(input, crlf + 2, 0, elements.val)

---------------------------------------------------------------------------
(* RedisCommandHandler: the reply builders and the dispatcher *)

CRLF == <<"\r", "\n">>

simpleString(s) == <<"+">> \o s \o CRLF

\* bulkStringFromStd and bulkStringFromView
bulkString(s) ==
    IF s = << >> THEN <<"$", "0">> \o CRLF \o CRLF
    ELSE <<"$">> \o to_string(Len(s)) \o CRLF \o s \o CRLF

nilBulk == <<"$", "-", "1">> \o CRLF

integerReply(v) == <<":">> \o to_string(v) \o CRLF

arrayHeader(n) == <<"*">> \o to_string(n) \o CRLF

ToUpper(c) ==
    IF \E i \in 1..26 : Lower[i] = c
    THEN Upper[CHOOSE i \in 1..26 : Lower[i] = c]
    ELSE c

UpperCase(s) == [i \in 1..Len(s) |-> ToUpper(s[i])]

\* the elements of a container in the order its iteration gives them; the
\* order of an unordered_map is unspecified, the model fixes one
RECURSIVE Enumerate(_)
Enumerate(S) ==
    IF S = {} THEN << >>
    ELSE LET x == CHOOSE y \in S : TRUE IN <<x>> \o Enumerate(S \ {x})

RECURSIVE BulkAll(_)
BulkAll(items) ==
    IF items = << >> THEN << >> ELSE bulkString(Head(items)) \o BulkAll(Tail(items))

\* what a handler gives back: the store, last_sweep and the reply
Reply(db, sweep, reply) == [db |-> db, last_sweep |-> sweep, reply |-> reply]

handleSet(tk, db, sweep) ==
    IF Len(tk) < 3 THEN Reply(db, sweep, Err.SetArgs)
    ELSE Reply(set(db, tk[2], tk[3]).db, sweep, simpleString(Txt.OK))

handleGet(tk, db, sweep, t) ==
    IF Len(tk) < 2 THEN Reply(db, sweep, Err.GetArgs)
    ELSE LET r == get(db, tk[2], t)
         IN  Reply(r.db, sweep, IF r.ret THEN bulkString(r.value) ELSE nilBulk)

handleDel(tk, db, sweep) ==
    IF Len(tk) < 2 THEN Reply(db, sweep, Err.DelArgs)
    ELSE LET r == del(db, tk[2])
         IN  Reply(r.db, sweep, integerReply(IF r.ret THEN 1 ELSE 0))

handleKeys(db, sweep, t) ==
    LET r  == keys(db, sweep, t)
        ks == Enumerate(DOMAIN r.db.kv_store) \o Enumerate(DOMAIN r.db.list_store)
              \o Enumerate(DOMAIN r.db.hash_store)
    IN  Reply(r.db, r.last_sweep, arrayHeader(Len(ks)) \o BulkAll(ks))

handleType(tk, db, sweep, t) ==
    IF Len(tk) < 2 THEN Reply(db, sweep, Err.TypeArgs)
    ELSE LET r == type(db, tk[2], t) IN Reply(r.db, sweep, simpleString(r.ret))

handleExpire(tk, db, sweep, t) ==
    IF Len(tk) < 3 THEN Reply(db, sweep, Err.ExpireArgs)
    ELSE LET seconds == stoi(tk[3])
         IN  IF ~seconds.ok THEN Reply(db, sweep, Err.InvalidExpire)
             ELSE LET r == expire(db, tk[2], seconds.val, t)
                  IN  Reply(r.db, sweep, IF r.ret THEN simpleString(Txt.OK) ELSE Err.KeyNotFound)

handleRename(tk, db, sweep) ==
    IF Len(tk) < 3 THEN Reply(db, sweep, Err.RenameArgs)
    ELSE LET r == rename(db, tk[2], tk[3])
         IN  Reply(r.db, sweep, IF r.ret THEN simpleString(Txt.OK) ELSE Err.RenameFailed)

\* the loops of handleLpush and handleRpush over the values tk[i..]
RECURSIVE PushAll(_, _, _, _, _)
PushAll(db, key, vals, left, t) ==
    IF vals = << >> THEN db
    ELSE PushAll(IF left THEN lpush(db, key, Head(vals), t).db
                 ELSE rpush(db, key, Head(vals), t).db,
                 key, Tail(vals), left, t)

handleLpush(tk, db, sweep, t) ==
    IF Len(tk) < 3 THEN Reply(db, sweep, Err.LpushArgs)
    ELSE LET d == PushAll(db, tk[2], SubSeq(tk, 3, Len(tk)), TRUE, t)
             r == llen(d, tk[2], t)
         IN  Reply(r.db, sweep, integerReply(r.ret))

handleRpush(tk, db, sweep, t) ==
    IF Len(tk) < 3 THEN Reply(db, sweep, Err.RpushArgs)
    ELSE LET d == PushAll(db, tk[2], SubSeq(tk, 3, Len(tk)), FALSE, t)
             r == llen(d, tk[2], t)
         IN  Reply(r.db, sweep, integerReply(r.ret))

handleLpop(tk, db, sweep, t) ==
    IF Len(tk) < 2 THEN Reply(db, sweep, Err.LpopArgs)
    ELSE LET r == lpop(db, tk[2], t)
         IN  Reply(r.db, sweep, IF r.ret THEN bulkString(r.value) ELSE nilBulk)

handleRpop(tk, db, sweep, t) ==
    IF Len(tk) < 2 THEN Reply(db, sweep, Err.RpopArgs)
    ELSE LET r == rpop(db, tk[2], t)
         IN  Reply(r.db, sweep, IF r.ret THEN bulkString(r.value) ELSE nilBulk)

handleLlen(tk, db, sweep, t) ==
    IF Len(tk) < 2 THEN Reply(db, sweep, Err.LlenArgs)
    ELSE LET r == llen(db, tk[2], t) IN Reply(r.db, sweep, integerReply(r.ret))

handleLget(tk, db, sweep, t) ==
    IF Len(tk) < 2 THEN Reply(db, sweep, Err.LgetArgs)
    ELSE LET r == lget(db, tk[2], t)
         IN  Reply(r.db, sweep, arrayHeader(Len(r.ret)) \o BulkAll(r.ret))

handleLrem(tk, db, sweep, t) ==
    IF Len(tk) < 4 THEN Reply(db, sweep, Err.LremArgs)
    ELSE LET count == stoi(tk[3])
         IN  IF ~count.ok THEN Reply(db, sweep, Err.InvalidCount)
             ELSE LET r == lrem(db, tk[2], count.val, tk[4], t)
                  IN  Reply(r.db, sweep, integerReply(r.ret))

handleLindex(tk, db, sweep, t) ==
    IF Len(tk) < 3 THEN Reply(db, sweep, Err.LindexArgs)
    ELSE LET idx == stoi(tk[3])
         IN  IF ~idx.ok THEN Reply(db, sweep, Err.InvalidIndex)
             ELSE LET r == lindex(db, tk[2], idx.val, t)
                  IN  Reply(r.db, sweep, IF r.ret THEN bulkString(r.value) ELSE nilBulk)

handleLset(tk, db, sweep, t) ==
    IF Len(tk) < 4 THEN Reply(db, sweep, Err.LsetArgs)
    ELSE LET idx == stoi(tk[3])
         IN  IF ~idx.ok THEN Reply(db, sweep, Err.InvalidIndex)
             ELSE LET r == lset(db, tk[2], idx.val, tk[4], t)
                  IN  Reply(r.db, sweep, IF r.ret THEN simpleString(Txt.OK) ELSE Err.IndexRange)

handleHset(tk, db, sweep, t) ==
    IF Len(tk) < 4 THEN Reply(db, sweep, Err.HsetArgs)
    ELSE Reply(hset(db, tk[2], tk[3], tk[4], t).db, sweep, integerReply(1))

handleHget(tk, db, sweep, t) ==
    IF Len(tk) < 3 THEN Reply(db, sweep, Err.HgetArgs)
    ELSE LET r == hget(db, tk[2], tk[3], t)
         IN  Reply(r.db, sweep, IF r.ret THEN bulkString(r.value) ELSE nilBulk)

handleHexists(tk, db, sweep, t) ==
    IF Len(tk) < 3 THEN Reply(db, sweep, Err.HexistsArgs)
    ELSE LET r == hexists(db, tk[2], tk[3], t)
         IN  Reply(r.db, sweep, integerReply(IF r.ret THEN 1 ELSE 0))

handleHdel(tk, db, sweep, t) ==
    IF Len(tk) < 3 THEN Reply(db, sweep, Err.HdelArgs)
    ELSE LET r == hdel(db, tk[2], tk[3], t)
         IN  Reply(r.db, sweep, integerReply(IF r.ret THEN 1 ELSE 0))

\* the field-value pairs of a hash, in iteration order, field before value
RECURSIVE BulkPairs(_, _)
BulkPairs(map, fields) ==
    IF fields = << >> THEN << >>
    ELSE bulkString(Head(fields)) \o bulkString(map[Head(fields)])
         \o BulkPairs(map, Tail(fields))

handleHgetall(tk, db, sweep, t) ==
    IF Len(tk) < 2 THEN Reply(db, sweep, Err.HgetallArgs)
    ELSE LET r == hgetall(db, tk[2], t)
         IN  Reply(r.db, sweep, arrayHeader(Cardinality(DOMAIN r.ret) * 2)
                                \o BulkPairs(r.ret, Enumerate(DOMAIN r.ret)))

handleHkeys(tk, db, sweep, t) ==
    IF Len(tk) < 2 THEN Reply(db, sweep, Err.HkeysArgs)
    ELSE LET r  == hgetall(db, tk[2], t)
             fs == Enumerate(DOMAIN r.ret)
         IN  Reply(hkeys(db, tk[2], t).db, sweep, arrayHeader(Len(fs)) \o BulkAll(fs))

handleHvals(tk, db, sweep, t) ==
    IF Len(tk) < 2 THEN Reply(db, sweep, Err.HvalsArgs)
    ELSE LET r  == hgetall(db, tk[2], t)
             fs == Enumerate(DOMAIN r.ret)
         IN  Reply(hvals(db, tk[2], t).db, sweep,
                   arrayHeader(Len(fs)) \o BulkAll([i \in 1..Len(fs) |-> r.ret[fs[i]]]))

handleHlen(tk, db, sweep, t) ==
    IF Len(tk) < 2 THEN Reply(db, sweep, Err.HlenArgs)
    ELSE LET r == hlen(db, tk[2], t) IN Reply(r.db, sweep, integerReply(r.ret))

\* the pairs (tk[i], tk[i + 1]) for i = 2, 4, ... (0-based), as handleHmset builds them
RECURSIVE FieldValues(_)
FieldValues(rest) ==
    IF Len(rest) < 2 THEN << >>
    ELSE <<<<rest[1], rest[2]>>>> \o FieldValues(SubSeq(rest, 3, Len(rest)))

handleHmset(tk, db, sweep, t) ==
    IF Len(tk) < 4 \/ (Len(tk) - 2) % 2 # 0 THEN Reply(db, sweep, Err.HmsetArgs)
    ELSE Reply(hmset(db, tk[2], FieldValues(SubSeq(tk, 3, Len(tk))), t).db, sweep,
               simpleString(Txt.OK))

\* the if chain of processCommand over the upper-cased command name
Execute(cmd, tokens, db, sweep, t) ==
        IF cmd = Cmd.PING THEN Reply(db, sweep, simpleString(Txt.PONG))
        ELSE IF cmd = Cmd.ECHO
        THEN Reply(db, sweep, IF Len(tokens) < 2 THEN Err.EchoArgs ELSE bulkString(tokens[2]))
        ELSE IF cmd = Cmd.SET THEN handleSet(tokens, db, sweep)
        ELSE IF cmd = Cmd.GET THEN handleGet(tokens, db, sweep, t)
        ELSE IF cmd = Cmd.DEL \/ cmd = Cmd.UNLINK THEN handleDel(tokens, db, sweep)
        ELSE IF cmd = Cmd.FLUSHALL THEN Reply(flushAll(db).db, sweep, simpleString(Txt.OK))
        ELSE IF cmd = Cmd.KEYS THEN handleKeys(db, sweep, t)
        ELSE IF cmd = Cmd.TYPE THEN handleType(tokens, db, sweep, t)
        ELSE IF cmd = Cmd.EXPIRE THEN handleExpire(tokens, db, sweep, t)
        ELSE IF cmd = Cmd.RENAME THEN handleRename(tokens, db, sweep)
        ELSE IF cmd = Cmd.LPUSH THEN handleLpush(tokens, db, sweep, t)
        ELSE IF cmd = Cmd.RPUSH THEN handleRpush(tokens, db, sweep, t)
        ELSE IF cmd = Cmd.LPOP THEN handleLpop(tokens, db, sweep, t)
        ELSE IF cmd = Cmd.RPOP THEN handleRpop(tokens, db, sweep, t)
        ELSE IF cmd = Cmd.LLEN THEN handleLlen(tokens, db, sweep, t)
        ELSE IF cmd = Cmd.LGET THEN handleLget(tokens, db, sweep, t)
        ELSE IF cmd = Cmd.LREM THEN handleLrem(tokens, db, sweep, t)
        ELSE IF cmd = Cmd.LINDEX THEN handleLindex(tokens, db, sweep, t)
        ELSE IF cmd = Cmd.LSET THEN handleLset(tokens, db, sweep, t)
        ELSE IF cmd = Cmd.HSET THEN handleHset(tokens, db, sweep, t)
        ELSE IF cmd = Cmd.HGET THEN handleHget(tokens, db, sweep, t)
        ELSE IF cmd = Cmd.HEXISTS THEN handleHexists(tokens, db, sweep, t)
        ELSE IF cmd = Cmd.HDEL THEN handleHdel(tokens, db, sweep, t)
        ELSE IF cmd = Cmd.HGETALL THEN handleHgetall(tokens, db, sweep, t)
        ELSE IF cmd = Cmd.HKEYS THEN handleHkeys(tokens, db, sweep, t)
        ELSE IF cmd = Cmd.HVALS THEN handleHvals(tokens, db, sweep, t)
        ELSE IF cmd = Cmd.HLEN THEN handleHlen(tokens, db, sweep, t)
        ELSE IF cmd = Cmd.HMSET THEN handleHmset(tokens, db, sweep, t)
        ELSE Reply(db, sweep, Err.UnknownCommand)

\* processCommand from the parsed tokens on
Dispatch(tokens, db, sweep, t) ==
    IF tokens = << >> THEN Reply(db, sweep, Err.EmptyCommand)
    ELSE Execute(UpperCase(tokens[1]), tokens, db, sweep, t)

processCommand(commandView, db, sweep, t) ==
    Dispatch(parseRespViews(commandView), db, sweep, t)

---------------------------------------------------------------------------
(* The store under a sequence of operations, with their arguments drawn    *)
(* from small sets, and the passing of time.  The actions are the          *)
(* operations on strings, keys and expiry and, of the list and hash        *)
(* operations, one that adds and one that removes; the other list and hash *)
(* operations are applied to the states these reach in the properties.     *)

Keys      == {<<"k">>, <<"j">>}
SetVals   == {<<"a">>, <<"1">>}
ListVals  == {<<"a">>}
Fields    == {<<"f">>}
Seconds   == {0, 1}
Counts    == {-1, 0, 1}
Indexes   == {-1, 0}

ConnIdle ==
    /\ requests = << >> /\ sent = 0 /\ recvs = 0 /\ buffer = << >> /\ replies = << >>
    /\ dispatched = << >> /\ framed = << >> /\ conn = "idle"

Clients == 1 .. MaxClients
Workers == 1 .. NumWorkers

\* what a thread of the pool does: wait for a task, run the handler of client
\* c, or nothing any more
Waiting == [st |-> "waiting", task |-> 0]
Serving(c) == [st |-> "serving", task |-> c]
Exited == [st |-> "exited", task |-> 0]

\* the server as constructed: running, its pool waiting, no client yet
ServerUp ==
    /\ running = TRUE /\ server_socket = "open"
    /\ stopping = FALSE /\ tasks = << >>
    /\ worker = [w \in Workers |-> Waiting]
    /\ client = [c \in Clients |-> "none"]
    /\ peer = [c \in Clients |-> "open"]
    /\ shut = "idle"

\* the threads of main.cpp: the persistence thread, the main thread, and the
\* signal handler that calls requestShutdown
Threads == {"persist", "main", "signal"}

\* where a thread stands, and whether it is inside safeDump
At(place, safe) == [at |-> place, safe |-> safe]

\* the threads that call ThreadPool::shutdown through RedisServer::shutdown:
\* the signal handler and the destructor run by main
Callers == {"signal", "main"}

\* no task has run and nobody has called ThreadPool::shutdown
PoolUp ==
    /\ active_count = 0
    /\ ran = [c \in Clients |-> << >>]
    /\ caller = [k \in Callers |-> [at |-> "idle", accepted |-> {}]]

\* the handler threads that call keys() at the same time
Sweepers == 1 .. NumSweepers

\* no thread is inside maybeFullPurge and no sweep has been executed
SweepUp ==
    /\ sweeper = [x \in Sweepers |-> [at |-> "idle", now |-> 0]]
    /\ sweeps = << >>

\* no client of the concurrent run has connected
SessionsUp ==
    session = [c \in Clients |->
                  [step |-> "start", buffer |-> << >>, wire |-> << >>, pending |-> << >>,
                   inbox |-> << >>, got |-> << >>]]

\* main has started the persistence thread and is inside server.run(); no
\* signal has arrived
MainUp ==
    /\ persistRunning = TRUE /\ dumpInProgress = FALSE
    /\ dumpMutex = "free" /\ db_mutex = "free"
    /\ writing = {}
    /\ overlapped = [t \in Threads |-> FALSE]
    /\ snapshot = << >>
    /\ pc = [t \in Threads |-> IF t = "persist" THEN At("loop", FALSE)
                                ELSE IF t = "main" THEN At("run", FALSE)
                                ELSE At("idle", FALSE)]

\* the empty store at time 0, no connection
InitStore ==
    /\ kv_store = EmptyMap /\ list_store = EmptyMap
    /\ hash_store = EmptyMap /\ expiry_map = EmptyMap
    /\ now = 0
    /\ last_sweep = 0 - Ms(SWEEP_INTERVAL)
    /\ ConnIdle
    /\ ServerUp
    /\ MainUp
    /\ PoolUp
    /\ SweepUp
    /\ SessionsUp

\* no operation below is given the count INT_MIN
InitDB == InitStore /\ neg_int_min = -INT_MAX - 1

\* a store operation ran and produced r (its store and its return value)
Ran(r) ==
    /\ kv_store' = r.db.kv_store
    /\ list_store' = r.db.list_store
    /\ hash_store' = r.db.hash_store
    /\ expiry_map' = r.db.expiry_map
    /\ UNCHANGED <<now, connvars, buildvars, srvvars, mainvars, poolvars, sweepvars, session>>

Tick ==
    /\ now < MaxTicks * Ms(TickMs)
    /\ now' = now + Ms(TickMs)
    /\ UNCHANGED <<kv_store, list_store, hash_store, expiry_map, last_sweep, connvars, buildvars, srvvars, mainvars, poolvars, sweepvars, session>>

FlushAll == Ran(flushAll(DB)) /\ UNCHANGED last_sweep

Set(k, v) == Ran(set(DB, k, v)) /\ UNCHANGED last_sweep

Get(k) == Ran(get(DB, k, now)) /\ UNCHANGED last_sweep

Del(k) == Ran(del(DB, k)) /\ UNCHANGED last_sweep

KeysOp ==
    LET r == keys(DB, last_sweep, now)
    IN  Ran(r) /\ last_sweep' = r.last_sweep

Type(k) == Ran(type(DB, k, now)) /\ UNCHANGED last_sweep

Expire(k, s) == Ran(expire(DB, k, s, now)) /\ UNCHANGED last_sweep

Ttl(k) == Ran(ttl(DB, k, now)) /\ UNCHANGED last_sweep

Rename(o, n) == Ran(rename(DB, o, n)) /\ UNCHANGED last_sweep

Incr(k) ==
    LET r == incr(DB, k, now)
    IN  /\ r.value <= MaxCounter
        /\ Ran(r) /\ UNCHANGED last_sweep

Lpush(k, v) ==
    /\ Len(ListAt(DB, k)) < MaxListLen
    /\ Ran(lpush(DB, k, v, now)) /\ UNCHANGED last_sweep

Lpop(k) == Ran(lpop(DB, k, now)) /\ UNCHANGED last_sweep

Hset(k, f, v) == Ran(hset(DB, k, f, v, now)) /\ UNCHANGED last_sweep

Hdel(k, f) == Ran(hdel(DB, k, f, now)) /\ UNCHANGED last_sweep

NextDB ==
    \/ Tick
    \/ FlushAll
    \/ KeysOp
    \/ \E k \in Keys, v \in SetVals : Set(k, v)
    \/ \E k \in Keys : Get(k)
    \/ \E k \in Keys : Del(k)
    \/ \E k \in Keys : Type(k)
    \/ \E k \in Keys, s \in Seconds : Expire(k, s)
    \/ \E k \in Keys : Ttl(k)
    \/ \E o \in Keys, n \in Keys : Rename(o, n)
    \/ \E k \in Keys : Incr(k)
    \/ \E k \in Keys, v \in ListVals : Lpush(k, v)
    \/ \E k \in Keys : Lpop(k)
    \/ \E k \in Keys, f \in Fields, v \in ListVals : Hset(k, f, v)
    \/ \E k \in Keys, f \in Fields : Hdel(k, f)

SpecDB == InitDB /\ [][NextDB]_vars

---------------------------------------------------------------------------
(* RedisServer::handleClient: one connection.  The client sends the frames *)
(* of `requests`; every recv call delivers the next bytes, as many as the  *)
(* network hands over.                                                     *)

MAX_BUFFER == 4 * 1024 * 1024

RECV_SIZE == 8192      \* recvbuf

RECURSIVE Flatten(_)
Flatten(ss) == IF ss = << >> THEN << >> ELSE Head(ss) \o Flatten(Tail(ss))

\* buildRESP of the test clients: a multi-bulk request
buildRESP(tokens) == arrayHeader(Len(tokens)) \o BulkAll(tokens)

Stream == Flatten(requests)

Min(a, b) == IF a < b THEN a ELSE b

\* the for loop of handleClient over the frames: every frame goes to
\* processCommand and its reply to sendAll; the send of reply number failAt
\* fails (0: none does), which ends the loop
RECURSIVE ProcessFrames(_, _, _, _, _, _)
\* the rest of the loop once processCommand has answered the first frame with r
AfterCommand(r, frames, t, i, failAt) ==
    IF i = failAt
    THEN [db |-> r.db, last_sweep |-> r.last_sweep, out |-> << >>, done |-> <<Head(frames)>>]
    ELSE [db |-> r.db, last_sweep |-> r.last_sweep, out |-> <<r.reply>>,
          done |-> <<Head(frames)>>]

\* two runs of the loop, one after the other
Join(p, q) ==
    [db |-> q.db, last_sweep |-> q.last_sweep, out |-> p.out \o q.out, done |-> p.done \o q.done]

ContinueFrames(p, frames, t, i, failAt) ==
    IF i = failAt THEN p
    ELSE Join(p, ProcessFrames(Tail(frames), p.db, p.last_sweep, t, i + 1, failAt))

ProcessFrames(frames, db, sweep, t, i, failAt) ==
    IF frames = << >> THEN [db |-> db, last_sweep |-> sweep, out |-> << >>, done |-> << >>]
    ELSE ContinueFrames(AfterCommand(processCommand(Head(frames), db, sweep, t),
                                     frames, t, i, failAt),
                        frames, t, i, failAt)

\* what one iteration of the read loop leaves behind: buf is the buffer after
\* the append, frames what splitFrames returns for it, p the run of the loop
\* over the frames
AfterRecv(buf, frames, p, failAt) ==
    /\ buffer' = buf
    /\ IF Len(buf) > MAX_BUFFER
       THEN /\ replies' = Append(replies, ErrPayloadTooLarge)
            /\ conn' = "too_large"
            /\ UNCHANGED <<kv_store, list_store, hash_store, expiry_map, last_sweep,
                           dispatched, framed>>
       ELSE /\ framed' = framed \o frames
            /\ dispatched' = dispatched \o p.done
            /\ replies' = replies \o p.out
            /\ kv_store' = p.db.kv_store
            /\ list_store' = p.db.list_store
            /\ hash_store' = p.db.hash_store
            /\ expiry_map' = p.db.expiry_map
            /\ last_sweep' = p.last_sweep
            /\ conn' = IF failAt = 0 THEN "reading" ELSE "send_failed"

Dispatching(buf, frames, failAt) ==
    AfterRecv(buf, frames, ProcessFrames(frames, DB, last_sweep, now, 1, failAt), failAt)

Framing(buf, failAt) == Dispatching(buf, splitFrames(buf), failAt)

\* one iteration of the read loop in which recv returns n bytes
ReadLoop(n, failAt) ==
    /\ sent' = sent + n
    /\ recvs' = recvs + 1
    /\ Framing(buffer \o SubSeq(Stream, sent + 1, sent + n), failAt)
    /\ UNCHANGED <<now, requests, buildvars, srvvars, mainvars, poolvars, sweepvars, session>>

\* recv returns some bytes and every reply is sent
RecvData ==
    /\ conn = "reading"
    /\ recvs < MaxRecv
    /\ \E n \in 1..Min(Len(Stream) - sent, RECV_SIZE) : ReadLoop(n, 0)

\* recv returns some bytes and sendAll fails on the reply to one of the frames
RecvDataSendFails ==
    /\ conn = "reading"
    /\ recvs < MaxRecv
    /\ \E n \in 1..Min(Len(Stream) - sent, RECV_SIZE) :
           \E failAt \in 1..Len(splitFrames(buffer \o SubSeq(Stream, sent + 1, sent + n))) :
               ReadLoop(n, failAt)

\* recv returns 0: the client has sent everything and closed
RecvClosed ==
    /\ conn = "reading"
    /\ sent = Len(Stream)
    /\ conn' = "peer_closed"
    /\ UNCHANGED <<dbvars, requests, sent, recvs, buffer, replies, dispatched, framed, buildvars, srvvars, mainvars, poolvars, sweepvars, session>>

ReqPING == buildRESP(<<Cmd.PING>>)
ReqSET  == buildRESP(<<Cmd.SET, <<"k">>, <<"a">>>>)
ReqGET  == buildRESP(<<Cmd.GET, <<"k">>>>)

Requests == {ReqPING, ReqSET, ReqGET}

RequestSeqs == UNION {[1..n -> Requests] : n \in 1..MaxFrames}

InitConn ==
    /\ kv_store = EmptyMap /\ list_store = EmptyMap
    /\ hash_store = EmptyMap /\ expiry_map = EmptyMap
    /\ now = 0
    /\ last_sweep = 0 - Ms(SWEEP_INTERVAL)
    /\ requests \in RequestSeqs
    /\ sent = 0 /\ recvs = 0 /\ buffer = << >> /\ replies = << >>
    /\ dispatched = << >> /\ framed = << >> /\ conn = "reading"
    /\ neg_int_min = -INT_MAX - 1
    /\ ServerUp
    /\ MainUp
    /\ PoolUp
    /\ SweepUp
    /\ SessionsUp

NextConn ==
    \/ RecvData
    \/ RecvDataSendFails
    \/ RecvClosed

SpecConn == InitConn /\ [][NextConn]_vars

---------------------------------------------------------------------------
(* Properties of the connection handler *)

\* the replies to a sequence of frames processed one after the other
RepliesTo(frames) == ProcessFrames(frames, EmptyDB, 0 - Ms(SWEEP_INTERVAL), 0, 1, 0).out

\* every byte of the requests was delivered and no send failed
AllDelivered == sent = Len(Stream) /\ conn \in {"reading", "peer_closed"}

\* C1: once the n request frames of a connection are delivered, in whatever
\* chunks, the handler has dispatched each frame once, in order, and has written
\* the n replies in that order.
C1_EachFrameOnce ==
    AllDelivered =>
        /\ dispatched = requests
        /\ replies = RepliesTo(requests)

\* C2: the frames returned by the framer over all its calls on the growing
\* buffer, taken together, are the frames it returns for the whole stream, each
\* once and in order.
C2_ChunkedFraming ==
    (sent = Len(Stream) /\ conn # "too_large") => framed = splitFrames(Stream)

---------------------------------------------------------------------------
(* Properties of the store *)

\* k has an expiry entry whose deadline has passed at time t
Expired(db, k, t) == Has(db.expiry_map, k) /\ tp_expired(db.expiry_map[k], t)

\* k is in a store and its deadline, if any, has not passed
Live(db, k, t) == Exists(db, k) /\ ~Expired(db, k, t)

\* the store without k and without its expiry entry
Purged(db, k) ==
    [kv_store   |-> Erase(db.kv_store, k),
     list_store |-> Erase(db.list_store, k),
     hash_store |-> Erase(db.hash_store, k),
     expiry_map |-> Erase(db.expiry_map, k)]

\* what k holds: its string, its list and its hash, "none" where it has none
ValueOf(db, k) ==
    <<IF Has(db.kv_store, k) THEN db.kv_store[k] ELSE "none",
      IF Has(db.list_store, k) THEN db.list_store[k] ELSE "none",
      IF Has(db.hash_store, k) THEN db.hash_store[k] ELSE "none">>

DeadlineOf(db, k) == IF Has(db.expiry_map, k) THEN db.expiry_map[k] ELSE "none"

\* in how many of the three stores k is present
StoresHolding(db, k) ==
    (IF Has(db.kv_store, k) THEN 1 ELSE 0) + (IF Has(db.list_store, k) THEN 1 ELSE 0)
    + (IF Has(db.hash_store, k) THEN 1 ELSE 0)

\* C3: in every state of the store (whatever k holds, with or without an expiry
\* entry, expired or not), set(k, v) immediately followed by get(k) returns v,
\* and type(k) returns "string".
C3_SetThenGet ==
    \A k \in Keys, v \in SetVals :
        LET d == set(DB, k, v).db
            g == get(d, k, now)
        IN  /\ g.ret /\ g.value = v
            /\ type(d, k, now).ret = Txt.String

\* C4: no key is present in more than one of the string store, the list store
\* and the hash store.
C4_OneTypePerKey == \A k \in Keys : StoresHolding(DB, k) <= 1

\* C5: an operation that requires a type, applied to a live key holding a value
\* of another type, leaves the store unchanged and reports failure: get does
\* not answer as it does for an absent key, incr returns false.
C5_WrongTypeFails ==
    \A k \in Keys :
        /\ (Live(DB, k, now) /\ ~Has(kv_store, k)) =>
              /\ get(DB, k, now).ret # get(Purged(DB, k), k, now).ret
              /\ ~incr(DB, k, now).ret /\ incr(DB, k, now).db = DB
        /\ (Live(DB, k, now) /\ ~Has(list_store, k)) =>
              \A v \in ListVals :
                  /\ lpush(DB, k, v, now).db = DB
                  /\ rpush(DB, k, v, now).db = DB
        /\ (Live(DB, k, now) /\ ~Has(hash_store, k)) =>
              \A f \in Fields, v \in ListVals : hset(DB, k, f, v, now).db = DB

\* C6: for a key k whose deadline has passed and which is not yet purged, every
\* operation gives the result and the store it gives on the store from which k
\* and its expiry entry were removed beforehand.
C6_ExpiredIsAbsent ==
    \A k \in Keys :
        Expired(DB, k, now) =>
            LET P == Purged(DB, k)
            IN  /\ \A v \in SetVals : set(DB, k, v) = set(P, k, v)
                /\ del(DB, k) = del(P, k)
                /\ \A s \in Seconds : expire(DB, k, s, now) = expire(P, k, s, now)
                /\ ttl(DB, k, now) = ttl(P, k, now)
                /\ \A j \in Keys : rename(DB, k, j) = rename(P, k, j)
                /\ \A j \in Keys : rename(DB, j, k) = rename(P, j, k)
                /\ incr(DB, k, now) = incr(P, k, now)
                /\ \A v \in ListVals : lpush(DB, k, v, now) = lpush(P, k, v, now)
                /\ \A v \in ListVals : rpush(DB, k, v, now) = rpush(P, k, v, now)
                /\ lpop(DB, k, now) = lpop(P, k, now)
                /\ rpop(DB, k, now) = rpop(P, k, now)
                /\ llen(DB, k, now) = llen(P, k, now)
                /\ lget(DB, k, now) = lget(P, k, now)
                /\ \A c \in Counts, v \in ListVals : lrem(DB, k, c, v, now) = lrem(P, k, c, v, now)
                /\ \A i \in Indexes : lindex(DB, k, i, now) = lindex(P, k, i, now)
                /\ \A i \in Indexes, v \in ListVals : lset(DB, k, i, v, now) = lset(P, k, i, v, now)
                /\ \A f \in Fields, v \in ListVals : hset(DB, k, f, v, now) = hset(P, k, f, v, now)
                /\ \A f \in Fields : hget(DB, k, f, now) = hget(P, k, f, now)
                /\ \A f \in Fields : hexists(DB, k, f, now) = hexists(P, k, f, now)
                /\ \A f \in Fields : hdel(DB, k, f, now) = hdel(P, k, f, now)
                /\ hgetall(DB, k, now) = hgetall(P, k, now)
                /\ hlen(DB, k, now) = hlen(P, k, now)

\* C7: for an existing key k, after expire(k, 0) and a lapse of time a get(k)
\* returns nil, a type(k) after it returns "none", and a second get(k) returns
\* nil again: the key does not reappear.
C7_ExpiredStaysGone ==
    \A k \in Keys :
        Exists(DB, k) =>
            LET e  == expire(DB, k, 0, now)
                t2 == now + Ms(TickMs)
                g1 == get(e.db, k, t2)
                ty == type(g1.db, k, t2)
                g2 == get(ty.db, k, t2)
            IN  e.ret /\ ~g1.ret /\ ty.ret = Txt.None /\ ~g2.ret

\* C8: keys() returns exactly the live keys, each once, and no key whose
\* deadline has passed (stated for the states in which no key is in two stores).
C8_KeysAreLive ==
    C4_OneTypePerKey =>
        keys(DB, last_sweep, now).ret = SetToBag({k \in Keys : Live(DB, k, now)})

\* C9: for every existing key old and every key new, new = old included,
\* rename(old, new) returns true, new then holds old's former value and expiry
\* entry, and old is absent unless new = old.
C9_RenameMoves ==
    \A o \in Keys, n \in Keys :
        Exists(DB, o) =>
            LET r == rename(DB, o, n)
            IN  /\ r.ret
                /\ ValueOf(r.db, n) = ValueOf(DB, o)
                /\ DeadlineOf(r.db, n) = DeadlineOf(DB, o)
                /\ (n # o) => (~Exists(r.db, o) /\ ~Has(r.db.expiry_map, o))

\* C10: ttl(k) returns -2 when k is in no store or its deadline has passed, -1
\* when k is in a store and has no expiry entry, and otherwise the whole seconds
\* remaining; after a successful expire(k, s) with s > 0, at every time before
\* the deadline ttl(k) is between 0 and s.
C10_Ttl ==
    \A k \in Keys :
        LET r == ttl(DB, k, now).ret
        IN  /\ (~Exists(DB, k) \/ Expired(DB, k, now)) => r = -2
            /\ (Exists(DB, k) /\ ~Has(expiry_map, k)) => r = -1
            /\ (Exists(DB, k) /\ Has(expiry_map, k) /\ ~Expired(DB, k, now)) =>
                  /\ r >= 0
                  /\ Ms(r * 1000) <= expiry_map[k] - now
                  /\ expiry_map[k] - now < Ms((r + 1) * 1000)
            /\ \A s \in 1..3 :
                  LET e == expire(DB, k, s, now)
                  IN  e.ret =>
                        \A i \in 0..(2 * s - 1) :
                            ttl(e.db, k, now + i * Ms(TickMs)).ret \in 0..s

\* C10 witness: a key with a deadline of which less than a second remains after
\* time has passed: ttl returns 0
C10_Witness ==
    \E k \in Keys :
        /\ Exists(DB, k) /\ Has(expiry_map, k)
        /\ now > 0 /\ now < expiry_map[k]
        /\ ttl(DB, k, now).ret = 0

---------------------------------------------------------------------------
(* INCR on strings of every shape: the store under set, incr and del *)

MaxIncr == 44       \* incr counts up to this value

\* the strings set before an incr: integers, a word, digits followed by a letter
IncrVals == {<<"4", "2">>, <<"-", "1">>, <<"x", "x">>, <<"1", "a">>}

IncrText(k) ==
    LET r == incr(DB, k, now)
    IN  /\ r.value <= MaxIncr
        /\ Ran(r) /\ UNCHANGED last_sweep

NextIncr ==
    \/ \E k \in Keys, v \in IncrVals : Set(k, v)
    \/ \E k \in Keys : IncrText(k)
    \/ \E k \in Keys : Del(k)

SpecIncr == InitDB /\ [][NextIncr]_vars

\* s is the decimal text of an integer: an optional minus sign, then digits only
IsIntegerText(s) ==
    LET d == IF s # << >> /\ Head(s) = "-" THEN Tail(s) ELSE s
    IN  d # << >> /\ \A i \in 1..Len(d) : IsDigit(d[i])

\* the integer whose decimal text s is
IntegerOf(s) == IF Head(s) = "-" THEN -ParseDigits(Tail(s), 0) ELSE ParseDigits(s, 0)

\* C11: incr(k) on a missing key stores and returns 1; on the decimal text of
\* an integer n it stores and returns n + 1; on a string that is not an integer
\* it fails and leaves the store unchanged.
C11_Incr ==
    \A k \in Keys :
        LET r == incr(DB, k, now)
        IN  /\ ~Exists(DB, k) =>
                  r.ret /\ r.value = 1 /\ r.db.kv_store[k] = <<"1">>
            /\ (Has(kv_store, k) /\ IsIntegerText(kv_store[k])) =>
                  /\ r.ret /\ r.value = IntegerOf(kv_store[k]) + 1
                  /\ r.db.kv_store[k] = to_string(IntegerOf(kv_store[k]) + 1)
            /\ (Has(kv_store, k) /\ ~IsIntegerText(kv_store[k])) =>
                  ~r.ret /\ r.db = DB

---------------------------------------------------------------------------
(* Lists: the store under the list operations that add and remove *)

MaxElems == 3       \* a list grows to this many elements

ListElems == {<<"a">>, <<"b">>}

LremCounts == {-INT_MAX - 1, -2, -1, 0, 1, 2}

ListLpush(k, v) ==
    /\ Len(ListAt(DB, k)) < MaxElems
    /\ Ran(lpush(DB, k, v, now)) /\ UNCHANGED last_sweep

ListRpush(k, v) ==
    /\ Len(ListAt(DB, k)) < MaxElems
    /\ Ran(rpush(DB, k, v, now)) /\ UNCHANGED last_sweep

Rpop(k) == Ran(rpop(DB, k, now)) /\ UNCHANGED last_sweep

Lrem(k, c, v) == Ran(lrem(DB, k, c, v, now)) /\ UNCHANGED last_sweep

NextList ==
    \/ \E k \in Keys, v \in ListElems : ListLpush(k, v)
    \/ \E k \in Keys, v \in ListElems : ListRpush(k, v)
    \/ \E k \in Keys : Lpop(k)
    \/ \E k \in Keys : Rpop(k)
    \/ \E k \in Keys, c \in LremCounts, v \in ListElems : Lrem(k, c, v)
    \/ \E k \in Keys : Del(k)

InitList == InitStore /\ neg_int_min \in NegIntMin

SpecList == InitList /\ [][NextList]_vars

\* C12: the list read back in full is the sequence built by prepending each
\* lpush value and appending each rpush value: an absent key reads as the empty
\* list, an lpush puts its value in front of what was read before, an rpush
\* behind it; on an absent key lpush a, lpush b reads [b, a] and rpush a,
\* rpush b reads [a, b].
C12_PushOrder ==
    \A k \in Keys :
        LET before == lget(DB, k, now).ret
        IN  /\ ~Exists(DB, k) => before = << >>
            /\ \A v \in ListElems :
                  /\ lget(lpush(DB, k, v, now).db, k, now).ret = <<v>> \o before
                  /\ lget(rpush(DB, k, v, now).db, k, now).ret = before \o <<v>>
            /\ ~Exists(DB, k) =>
                  \A a \in ListElems, b \in ListElems :
                      /\ lget(lpush(lpush(DB, k, a, now).db, k, b, now).db, k, now).ret = <<b, a>>
                      /\ lget(rpush(rpush(DB, k, a, now).db, k, b, now).db, k, now).ret = <<a, b>>

\* C12 witness: a list of two different elements to which a third is prepended
C12_Witness ==
    \E k \in Keys :
        /\ Has(list_store, k) /\ list_store[k] = <<<<"b">>, <<"a">>>>
        /\ lget(lpush(DB, k, <<"b">>, now).db, k, now).ret = <<<<"b">>, <<"b">>, <<"a">>>>

\* the positions of lst that hold v
Occurrences(lst, v) == {i \in 1..Len(lst) : lst[i] = v}

\* the first n and the last n of the positions in S
FirstOf(S, n) == {i \in S : Cardinality({j \in S : j < i}) < n}

LastOf(S, n) == {i \in S : Cardinality({j \in S : j > i}) < n}

\* lst without the positions in S, from position i on, the order kept
RECURSIVE Without(_, _, _)
Without(lst, S, i) ==
    IF i > Len(lst) THEN << >>
    ELSE (IF i \in S THEN << >> ELSE <<lst[i]>>) \o Without(lst, S, i + 1)

\* the positions lrem(count, v) is to remove (|count| beyond the length of the
\* list asks for every occurrence)
ToRemove(lst, count, v) ==
    LET occ == Occurrences(lst, v)
    IN  IF count = 0 THEN occ
        ELSE IF count > 0 THEN FirstOf(occ, count)
        ELSE LastOf(occ, IF count < -Len(lst) THEN Len(lst) ELSE -count)

\* C13: lrem(k, count, v) returns the number of elements it removed and keeps
\* the order of the rest: every element equal to v with count = 0, the first
\* min(count, matches) of them with count > 0, the last min(|count|, matches)
\* with count < 0.
C13_Lrem ==
    \A k \in Keys, c \in LremCounts, v \in ListElems :
        Has(list_store, k) =>
            LET lst == list_store[k]
                r   == lrem(DB, k, c, v, now)
                S   == ToRemove(lst, c, v)
            IN  /\ r.ret = Cardinality(S)
                /\ r.ret = Len(lst) - Len(ListAt(r.db, k))
                /\ ListAt(r.db, k) = Without(lst, S, 1)

---------------------------------------------------------------------------
(* Hashes: the store under hset, hmset, hdel and del *)

HashFields == {<<"f">>, <<"g">>}

HashVals == {<<"a">>, <<"b">>, <<"c">>}

\* the field/value vectors of hmset: one or two pairs
FieldValueSeqs ==
    LET pairs == HashFields \X HashVals
    IN  {<<p>> : p \in pairs} \cup {<<p, q>> : p \in pairs, q \in pairs}

Hmset(k, fv) == Ran(hmset(DB, k, fv, now)) /\ UNCHANGED last_sweep

NextHash ==
    \/ \E k \in Keys, f \in HashFields, v \in HashVals : Hset(k, f, v)
    \/ \E k \in Keys, fv \in FieldValueSeqs : Hmset(k, fv)
    \/ \E k \in Keys, f \in HashFields : Hdel(k, f)
    \/ \E k \in Keys : Del(k)

SpecHash == InitDB /\ [][NextHash]_vars

\* what hget(k, f) answers: the value, or "absent"
Field(db, k, f) ==
    LET r == hget(db, k, f, now) IN IF r.ret THEN r.value ELSE "absent"

\* the value of field f after the pairs of fv were set in order, from `before`
RECURSIVE LastSet(_, _, _)
LastSet(fv, f, before) ==
    IF fv = << >> THEN before
    ELSE LastSet(Tail(fv), f, IF Head(fv)[1] = f THEN Head(fv)[2] ELSE before)

\* C14: hget(k, f) returns the value last set for f by hset or hmset, absent
\* if f was never set or was deleted since, and hlen(k) is the number of fields
\* present: a key in no store has no field; hset and hmset give their fields
\* their (last) value and leave the others as they were; hdel makes its field
\* absent and leaves the others.
C14_Hash ==
    \A k \in Keys :
        /\ ~Exists(DB, k) => \A f \in HashFields : Field(DB, k, f) = "absent"
        /\ hlen(DB, k, now).ret = Cardinality({f \in HashFields : Field(DB, k, f) # "absent"})
        /\ \A f \in HashFields, g \in HashFields :
              /\ \A v \in HashVals :
                    Field(hset(DB, k, f, v, now).db, k, g) =
                        IF g = f THEN v ELSE Field(DB, k, g)
              /\ Field(hdel(DB, k, f, now).db, k, g) =
                        IF g = f THEN "absent" ELSE Field(DB, k, g)
        /\ \A fv \in FieldValueSeqs, g \in HashFields :
              Field(hmset(DB, k, fv, now).db, k, g) = LastSet(fv, g, Field(DB, k, g))

\* C14 witness: a hash with two fields of which hset overwrites one
C14_Witness ==
    \E k \in Keys :
        /\ hlen(DB, k, now).ret = 2
        /\ Field(DB, k, <<"f">>) = <<"a">>
        /\ Field(hset(DB, k, <<"f">>, <<"b">>, now).db, k, <<"f">>) = <<"b">>
        /\ hlen(hset(DB, k, <<"f">>, <<"b">>, now).db, k, now).ret = 2

---------------------------------------------------------------------------
(* Persistence: RedisDatabase::dump writes the snapshot file byte by byte,  *)
(* RedisDatabase::load reads it back through the stream operations.        *)

\* "ofs << n" for a size
PutSize(n) == to_string_nat(n)

RECURSIVE DumpItems(_)
DumpItems(items) ==
    IF items = << >> THEN << >>
    ELSE <<" ">> \o PutSize(Len(Head(items))) \o <<"\n">> \o Head(items)
         \o DumpItems(Tail(items))

RECURSIVE DumpPairs(_, _)
DumpPairs(mp, fields) ==
    IF fields = << >> THEN << >>
    ELSE LET f == Head(fields)
         IN  <<" ">> \o PutSize(Len(f)) \o <<" ">> \o PutSize(Len(mp[f])) \o <<"\n">>
             \o f \o mp[f] \o DumpPairs(mp, Tail(fields))

\* the record of one key: tag, the two numbers of the header, key, body
DumpRecord(tag, key, second, body) ==
    <<tag, " ">> \o PutSize(Len(key)) \o <<" ">> \o second \o <<"\n">> \o key \o body \o <<"\n">>

\* duration_cast<milliseconds>(tp.time_since_epoch()).count(): truncates
ToMillis(tp) == tp \div TicksPerMs

RECURSIVE DumpStrings(_, _)
DumpStrings(db, ks) ==
    IF ks = << >> THEN << >>
    ELSE LET k == Head(ks)
         IN  DumpRecord("K", k, PutSize(Len(db.kv_store[k])), db.kv_store[k])
             \o DumpStrings(db, Tail(ks))

RECURSIVE DumpLists(_, _)
DumpLists(db, ks) ==
    IF ks = << >> THEN << >>
    ELSE LET k == Head(ks)
         IN  DumpRecord("L", k, PutSize(Len(db.list_store[k])), DumpItems(db.list_store[k]))
             \o DumpLists(db, Tail(ks))

RECURSIVE DumpHashes(_, _)
DumpHashes(db, ks) ==
    IF ks = << >> THEN << >>
    ELSE LET k == Head(ks)
             h == db.hash_store[k]
         IN  DumpRecord("H", k, PutSize(Cardinality(DOMAIN h)), DumpPairs(h, Enumerate(DOMAIN h)))
             \o DumpHashes(db, Tail(ks))

RECURSIVE DumpExpiries(_, _)
DumpExpiries(db, ks) ==
    IF ks = << >> THEN << >>
    ELSE LET k == Head(ks)
         IN  DumpRecord("E", k, to_string(ToMillis(db.expiry_map[k])), << >>)
             \o DumpExpiries(db, Tail(ks))

\* the bytes dump writes to the file
dump(db) ==
    DumpStrings(db, Enumerate(DOMAIN db.kv_store))
    \o DumpLists(db, Enumerate(DOMAIN db.list_store))
    \o DumpHashes(db, Enumerate(DOMAIN db.hash_store))
    \o DumpExpiries(db, Enumerate(DOMAIN db.expiry_map))

\* The input stream of load: the cursor into the file and the fail state.
\* Once a read has failed, every later read delivers nothing.
Stream0 == [pos |-> 0, fail |-> FALSE]

EOF_ == "EOF"

\* ifs.peek()
Peek(file, st) ==
    IF st.fail \/ st.pos >= Len(file) THEN EOF_ ELSE CharAt(file, st.pos)

\* ifs.get(): one byte, or failure at the end of the file
GetByte(file, st) ==
    IF st.fail \/ st.pos >= Len(file) THEN [st EXCEPT !.fail = TRUE]
    ELSE [st EXCEPT !.pos = @ + 1]

RECURSIVE SkipWs(_, _)
SkipWs(file, pos) ==
    IF pos < Len(file) /\ IsSpace(CharAt(file, pos)) THEN SkipWs(file, pos + 1) ELSE pos

RECURSIVE DigitsEnd(_, _)
DigitsEnd(file, pos) ==
    IF pos < Len(file) /\ IsDigit(CharAt(file, pos)) THEN DigitsEnd(file, pos + 1) ELSE pos

\* the digits file[from .. to) as a number; none is a failed extraction (value 0)
Extracted(file, from, to, sign) ==
    IF to = from THEN [val |-> 0, st |-> [pos |-> from, fail |-> TRUE]]
    ELSE [val |-> sign * ParseDigits(Substr(file, from, to - from), 0),
          st |-> [pos |-> to, fail |-> FALSE]]

ExtractFrom(file, pos, sign) == Extracted(file, pos, DigitsEnd(file, pos), sign)

\* the sign of a formatted number at pos
SignedFrom(file, pos) ==
    IF pos < Len(file) /\ CharAt(file, pos) = "-" THEN ExtractFrom(file, pos + 1, -1)
    ELSE IF pos < Len(file) /\ CharAt(file, pos) = "+" THEN ExtractFrom(file, pos + 1, 1)
    ELSE ExtractFrom(file, pos, 1)

\* "ifs >> n": white space is skipped, then an optional sign and digits
ReadNumber(file, st) ==
    IF st.fail THEN [val |-> 0, st |-> st] ELSE SignedFrom(file, SkipWs(file, st.pos))

NUL == "\\0"

RECURSIVE Nuls(_)
Nuls(n) == IF n <= 0 THEN << >> ELSE <<NUL>> \o Nuls(n - 1)

\* std::string s(n, '\0'); ifs.read(&s[0], n): the bytes the file still has,
\* the rest of s stays zero and the stream fails
ReadBytes(file, st, n) ==
    IF st.fail THEN [val |-> Nuls(n), st |-> st]
    ELSE IF st.pos + n <= Len(file)
         THEN [val |-> Substr(file, st.pos, n), st |-> [st EXCEPT !.pos = @ + n]]
         ELSE [val |-> Substr(file, st.pos, Len(file) - st.pos) \o Nuls(st.pos + n - Len(file)),
               st |-> [pos |-> Len(file), fail |-> TRUE]]

\* if (ifs.peek() == '\n') ifs.get();
SkipNewline(file, st) == IF Peek(file, st) = "\n" THEN GetByte(file, st) ELSE st

\* "ifs >> a >> b; ifs.get();": the header of a record or of a hash pair
HeaderSecond(file, a, b) == [first |-> a.val, second |-> b.val, st |-> GetByte(file, b.st)]
HeaderFirst(file, a) == HeaderSecond(file, a, ReadNumber(file, a.st))
ReadHeader(file, st) == HeaderFirst(file, ReadNumber(file, st))

\* "ifs >> len; ifs.get();" then the item
ItemBody(file, n) == ReadBytes(file, GetByte(file, n.st), n.val)
ReadItem(file, st) == ItemBody(file, ReadNumber(file, st))

\* the for loop over the items of a list
RECURSIVE ReadItems(_, _, _, _)
ItemRead(file, item, count, dq) == ReadItems(file, item.st, count - 1, Append(dq, item.val))
ReadItems(file, st, count, dq) ==
    IF count <= 0 THEN [val |-> dq, st |-> st]
    ELSE ItemRead(file, ReadItem(file, st), count, dq)

\* mp.emplace(field, val): a field already there keeps its value
Emplace(mp, field, val) == IF Has(mp, field) THEN mp ELSE Put(mp, field, val)

\* the for loop over the pairs of a hash
RECURSIVE ReadPairs(_, _, _, _)
PairValue(file, field, val, pairs, mp) ==
    ReadPairs(file, val.st, pairs - 1, Emplace(mp, field.val, val.val))
PairField(file, h, field, pairs, mp) ==
    PairValue(file, field, ReadBytes(file, field.st, h.second), pairs, mp)
PairHeader(file, h, pairs, mp) ==
    PairField(file, h, ReadBytes(file, h.st, h.first), pairs, mp)
ReadPairs(file, st, pairs, mp) ==
    IF pairs <= 0 THEN [val |-> mp, st |-> st]
    ELSE PairHeader(file, ReadHeader(file, st), pairs, mp)

\* std::getline(ifs, skip): up to and including the next newline
RECURSIVE SkipLine(_, _)
SkipLine(file, st) ==
    IF st.fail \/ st.pos >= Len(file) THEN st
    ELSE IF CharAt(file, st.pos) = "\n" THEN [st EXCEPT !.pos = @ + 1]
    ELSE SkipLine(file, [st EXCEPT !.pos = @ + 1])

\* tp_from_ms_since_epoch
tp_from_ms_since_epoch(ms) == Ms(ms)

\* one record of each type, the key already read: the database with the
\* record stored and the stream behind the record
StoreString(file, db, key, val) ==
    [db |-> [db EXCEPT !.kv_store = Put(@, key.val, val.val)], st |-> SkipNewline(file, val.st)]
StoreList(file, db, key, items) ==
    [db |-> [db EXCEPT !.list_store = Put(@, key.val, items.val)], st |-> SkipNewline(file, items.st)]
StoreHash(file, db, key, pairs) ==
    [db |-> [db EXCEPT !.hash_store = Put(@, key.val, pairs.val)], st |-> SkipNewline(file, pairs.st)]
StoreExpiry(file, db, key, ms) ==
    [db |-> [db EXCEPT !.expiry_map = Put(@, key.val, tp_from_ms_since_epoch(ms))],
     st |-> SkipNewline(file, key.st)]

\* the branch of the record type, the header and the key already read
RecordBody(file, db, tag, h, key) ==
    IF tag = "K" THEN StoreString(file, db, key, ReadBytes(file, key.st, h.second))
    ELSE IF tag = "L" THEN StoreList(file, db, key, ReadItems(file, key.st, h.second, << >>))
    ELSE IF tag = "H" THEN StoreHash(file, db, key, ReadPairs(file, key.st, h.second, EmptyMap))
    ELSE StoreExpiry(file, db, key, h.second)

RecordKey(file, db, tag, h) == RecordBody(file, db, tag, h, ReadBytes(file, h.st, h.first))

\* one turn of the while loop, the type byte already taken
ReadRecord(file, db, tag, st) ==
    IF tag \in {"K", "L", "H", "E"} THEN RecordKey(file, db, tag, ReadHeader(file, st))
    ELSE [db |-> db, st |-> SkipLine(file, st)]

\* while (ifs.peek() != EOF)
RECURSIVE LoadRecords(_, _)
LoadRecords(file, r) ==
    IF Peek(file, r.st) = EOF_ THEN r.db
    ELSE LoadRecords(file, ReadRecord(file, r.db, CharAt(file, r.st.pos), GetByte(file, r.st)))

\* RedisDatabase::load of an existing file read at time t: the four maps are
\* cleared, the records are read, and the expired keys are purged
load(file, t) ==
    [db |-> purgeExpired_locked(LoadRecords(file, [db |-> EmptyDB, st |-> Stream0]), t),
     ret |-> TRUE]

---------------------------------------------------------------------------
(* Snapshot specification: a store holding strings, lists, hashes and      *)
(* deadlines whose clock does not stand on a whole millisecond, saved and  *)
(* restored.                                                               *)

\* the clock starts anywhere within its first millisecond
InitSnap ==
    /\ kv_store = EmptyMap /\ list_store = EmptyMap
    /\ hash_store = EmptyMap /\ expiry_map = EmptyMap
    /\ now \in 0 .. (TicksPerMs - 1)
    /\ last_sweep = now - Ms(SWEEP_INTERVAL)
    /\ ConnIdle
    /\ ServerUp
    /\ MainUp
    /\ PoolUp
    /\ SweepUp
    /\ SessionsUp
    /\ neg_int_min = -INT_MAX - 1

\* dump(P); flush_all(); load(P): load clears the maps flush_all emptied and
\* reads the file dump wrote
Restore == Ran(load(dump(DB), now)) /\ UNCHANGED last_sweep

NextSnap ==
    \/ \E k \in Keys, v \in SetVals : Set(k, v)
    \/ \E k \in Keys, v \in ListVals : Lpush(k, v)
    \/ \E k \in Keys, f \in Fields, v \in SetVals : Hset(k, f, v)
    \/ \E k \in Keys, s \in Seconds : Expire(k, s)
    \/ Tick
    \/ Restore

SpecSnap == InitSnap /\ [][NextSnap]_vars

\* the keys of db that are present at time t, with their values and deadlines
Unexpired(m, db, t) == [k \in {x \in DOMAIN m : ~Expired(db, x, t)} |-> m[k]]

Surviving(db, t) ==
    [kv_store   |-> Unexpired(db.kv_store, db, t),
     list_store |-> Unexpired(db.list_store, db, t),
     hash_store |-> Unexpired(db.hash_store, db, t),
     expiry_map |-> Unexpired(db.expiry_map, db, t)]

\* the times of a load: at the dump, or whole sweeps later
LoadTimes == {now + i * Ms(TickMs) : i \in 0 .. 2}

\* C15: dump(P); flush_all(); load(P), the load at the time of the dump or
\* later, leaves exactly the keys whose deadline has not passed at the load,
\* each with the string, list and hash value and with the deadline it had at
\* the dump, and none of the keys whose deadline has passed.
C15_RoundTrip ==
    \A t \in LoadTimes : load(dump(DB), t).db = Surviving(DB, t)

---------------------------------------------------------------------------
\* no list and no hash of db is empty
NoEmptyContainer(db) ==
    /\ \A x \in DOMAIN db.list_store : db.list_store[x] # << >>
    /\ \A x \in DOMAIN db.hash_store : db.hash_store[x] # EmptyMap

\* k is destroyed in db: no type, not among the keys, no empty container left
Destroyed(db, k, t) ==
    /\ type(db, k, t).ret = Txt.None
    /\ ~BagIn(k, keys(db, last_sweep, t).ret)
    /\ NoEmptyContainer(db)

\* C16: for a live key held by the list store only whose list has one element,
\* lpop, rpop and lrem of that element each leave the key destroyed (type none,
\* not in keys(), no empty list or hash in any store); for a live key held by
\* the hash store only whose hash has one field, hdel of that field does too.
C16_EmptyIsDestroyed ==
    \A k \in Keys :
        (NoEmptyContainer(DB) /\ Live(DB, k, now) /\ StoresHolding(DB, k) = 1) =>
            /\ (Has(list_store, k) /\ Len(list_store[k]) = 1) =>
                  /\ Destroyed(lpop(DB, k, now).db, k, now)
                  /\ Destroyed(rpop(DB, k, now).db, k, now)
                  /\ Destroyed(lrem(DB, k, 0, list_store[k][1], now).db, k, now)
            /\ (Has(hash_store, k) /\ Cardinality(DOMAIN hash_store[k]) = 1) =>
                  \A f \in DOMAIN hash_store[k] : Destroyed(hdel(DB, k, f, now).db, k, now)

---------------------------------------------------------------------------
(* Dispatch specification: request frames go one at a time through         *)
(* processCommand to the store, and time passes between them.              *)

\* tokens of requests that the dispatcher has no literal for
Word ==
    [TTL |-> <<"T", "T", "L">>,
     INCR |-> <<"I", "N", "C", "R">>,
     LRANGE |-> <<"L", "R", "A", "N", "G", "E">>,
     EX |-> <<"E", "X">>,
     PX |-> <<"P", "X">>,
     FOO |-> <<"F", "O", "O">>]

\* SET k v EX s and SET k v PX ms
ReqSetEx(k, v, s) == buildRESP(<<Cmd.SET, k, v, Word.EX, to_string(s)>>)
ReqSetPx(k, v, ms) == buildRESP(<<Cmd.SET, k, v, Word.PX, to_string(ms)>>)

ExecVals == {<<"a">>, <<"7">>}

\* the request frames of the clients
ExecRequests ==
    UNION {{buildRESP(<<Cmd.SET, k, v>>), ReqSetEx(k, v, 1), ReqSetPx(k, v, 1500)}
               : k \in Keys, v \in ExecVals}
    \cup UNION {{buildRESP(<<Cmd.GET, k>>), buildRESP(<<Cmd.DEL, k>>),
                 buildRESP(<<Cmd.EXPIRE, k, <<"1">>>>), buildRESP(<<Word.TTL, k>>),
                 buildRESP(<<Word.INCR, k>>), buildRESP(<<Cmd.LPUSH, k, <<"a">>>>),
                 buildRESP(<<Cmd.LPOP, k>>),
                 buildRESP(<<Word.LRANGE, k, <<"0">>, <<"-", "1">>>>)} : k \in Keys}
    \cup {buildRESP(<<Cmd.PING>>), buildRESP(<<Cmd.KEYS, <<"*">>>>), buildRESP(<<Word.FOO>>)}

\* no list is longer than the bound
ListsWithin(db) == \A k \in DOMAIN db.list_store : Len(db.list_store[k]) <= MaxListLen

\* processCommand is called with one frame
Command(req) ==
    LET r == processCommand(req, DB, last_sweep, now)
    IN  /\ ListsWithin(r.db)
        /\ Ran(r)
        /\ last_sweep' = r.last_sweep

NextExec ==
    \/ \E req \in ExecRequests : Command(req)
    \/ Tick

SpecExec == InitDB /\ [][NextExec]_vars

\* ceiling division of milliseconds to whole seconds
CeilSeconds(ms) == (ms + 999) \div 1000

\* SET with a lifetime of s seconds is answered +OK, stores v under k with the
\* deadline now + s, and a GET at or after the deadline is answered nil
SetWithLifetime(req, k, v, s) ==
    LET r == processCommand(req, DB, last_sweep, now)
    IN  /\ r.reply = simpleString(Txt.OK)
        /\ Has(r.db.kv_store, k) /\ r.db.kv_store[k] = v
        /\ Has(r.db.expiry_map, k) /\ r.db.expiry_map[k] = now + Ms(s * 1000)
        /\ \A i \in 0 .. 1 :
              processCommand(buildRESP(<<Cmd.GET, k>>), r.db, r.last_sweep,
                             now + Ms(s * 1000) + i * Ms(TickMs)).reply = nilBulk

\* C17: in every state, SET k v EX 1 and SET k v PX 1500 (two whole seconds by
\* ceiling division) are answered +OK, store v, set k's deadline to now + the
\* seconds, and GET k at or after that deadline is answered $-1.
C17_SetWithExpiry ==
    \A k \in Keys, v \in ExecVals :
        /\ SetWithLifetime(ReqSetEx(k, v, 1), k, v, 1)
        /\ SetWithLifetime(ReqSetPx(k, v, 1500), k, v, CeilSeconds(1500))

\* the command names of the recognized set
Recognized == {Cmd[c] : c \in DOMAIN Cmd} \cup {Word.TTL, Word.INCR, Word.LRANGE}

ReplyTo(req) == processCommand(req, DB, last_sweep, now).reply

\* C18: in every state TTL k is answered with the integer ttl(k) returns,
\* INCR k with the integer incr(k) returns when incr succeeds, LRANGE k 0 -1
\* with the array LGET k is answered with; a request is answered with the
\* unknown-command error exactly when its first token is outside the
\* recognized set.
C18_RecognizedDispatched ==
    /\ \A k \in Keys :
          /\ ReplyTo(buildRESP(<<Word.TTL, k>>)) = integerReply(ttl(DB, k, now).ret)
          /\ incr(DB, k, now).ret =>
                ReplyTo(buildRESP(<<Word.INCR, k>>)) = integerReply(incr(DB, k, now).value)
          /\ ReplyTo(buildRESP(<<Word.LRANGE, k, <<"0">>, <<"-", "1">>>>))
                = ReplyTo(buildRESP(<<Cmd.LGET, k>>))
    /\ \A req \in ExecRequests :
          ReplyTo(req) = Err.UnknownCommand
              <=> UpperCase(parseRespViews(req)[1]) \notin Recognized

---------------------------------------------------------------------------
(* Connection specification with inline requests: the client sends inline  *)
(* commands and multi-bulk frames on one connection.                       *)

Space == <<" ">>

\* an inline request: the words separated by one space, closed by CRLF
RECURSIVE InlineWords(_)
InlineWords(tokens) ==
    IF Len(tokens) = 1 THEN Head(tokens)
    ELSE Head(tokens) \o Space \o InlineWords(Tail(tokens))

buildInline(tokens) == InlineWords(tokens) \o CRLF

\* the requests of the client as token lists, and the two forms of a request
InlineTokens == {<<Cmd.PING>>, <<Cmd.GET, <<"k">>>>}
BulkTokens == {<<Cmd.PING>>, <<Cmd.SET, <<"k">>, <<"a">>>>, <<Cmd.GET, <<"k">>>>}

MixedRequests == {buildInline(tk) : tk \in InlineTokens} \cup {buildRESP(tk) : tk \in BulkTokens}

MixedSeqs == UNION {[1..n -> MixedRequests] : n \in 1..MaxFrames}

InitInline ==
    /\ kv_store = EmptyMap /\ list_store = EmptyMap
    /\ hash_store = EmptyMap /\ expiry_map = EmptyMap
    /\ now = 0
    /\ last_sweep = 0 - Ms(SWEEP_INTERVAL)
    /\ requests \in MixedSeqs
    /\ sent = 0 /\ recvs = 0 /\ buffer = << >> /\ replies = << >>
    /\ dispatched = << >> /\ framed = << >> /\ conn = "reading"
    /\ neg_int_min = -INT_MAX - 1
    /\ ServerUp
    /\ MainUp
    /\ PoolUp
    /\ SweepUp
    /\ SessionsUp

SpecInline == InitInline /\ [][NextConn]_vars

\* the multi-bulk request equivalent to a request
MultiBulk(req) ==
    IF \E tk \in InlineTokens : req = buildInline(tk)
    THEN buildRESP(CHOOSE tk \in InlineTokens : req = buildInline(tk))
    ELSE req

MultiBulkAll(reqs) == [i \in 1..Len(reqs) |-> MultiBulk(reqs[i])]

\* C19: when the whole stream of a connection, inline and multi-bulk requests
\* mixed, has arrived in one read, the framer has returned every request as one
\* frame, in order, and the replies written are the replies to the equivalent
\* multi-bulk requests, the ones after an inline request included.
C19_InlineFramed ==
    (AllDelivered /\ recvs = 1) =>
        /\ framed = requests
        /\ replies = RepliesTo(MultiBulkAll(requests))

---------------------------------------------------------------------------
(* Server specification: the accept loop hands each client to the thread   *)
(* pool, a worker runs handleClient for it, and shutdown stops the server. *)

Others == <<dbvars, connvars, buildvars, mainvars, poolvars, sweepvars, session>>

\* accept returns the socket of a client
Accept(c) ==
    /\ server_socket = "open"
    /\ client[c] = "none"
    /\ client' = [client EXCEPT ![c] = "accepted"]
    /\ UNCHANGED <<running, server_socket, stopping, tasks, worker, peer, shut, Others>>

\* the accept loop hands the socket to ThreadPool::enqueue, which puts the
\* handler on the queue unless the pool is stopping: then it returns without
\* the task, and nothing closes the socket
EnqueueHandler(c) ==
    /\ client[c] = "accepted"
    /\ IF stopping
       THEN client' = [client EXCEPT ![c] = "dropped"] /\ UNCHANGED tasks
       ELSE client' = [client EXCEPT ![c] = "queued"] /\ tasks' = Append(tasks, c)
    /\ UNCHANGED <<running, server_socket, stopping, worker, peer, shut, Others>>

\* workerThread takes the next task and enters handleClient's read loop
WorkerTake(w) ==
    /\ worker[w] = Waiting
    /\ tasks # << >>
    /\ worker' = [worker EXCEPT ![w] = Serving(Head(tasks))]
    /\ tasks' = Tail(tasks)
    /\ client' = [client EXCEPT ![Head(tasks)] = "recv"]
    /\ UNCHANGED <<running, server_socket, stopping, peer, shut, Others>>

\* workerThread returns: the pool is stopping and no task is left
WorkerExit(w) ==
    /\ worker[w] = Waiting
    /\ stopping /\ tasks = << >>
    /\ worker' = [worker EXCEPT ![w] = Exited]
    /\ UNCHANGED <<running, server_socket, stopping, tasks, client, peer, shut, Others>>

\* handleClient leaves the read loop, closes the socket and returns to its worker
CloseConn(c) ==
    /\ client' = [client EXCEPT ![c] = "closed"]
    /\ worker' = [w \in Workers |-> IF worker[w] = Serving(c) THEN Waiting ELSE worker[w]]
    /\ UNCHANGED <<running, server_socket, stopping, tasks, peer, shut, Others>>

\* the handler's pc moves within the read loop
InLoop(c, place) ==
    /\ client' = [client EXCEPT ![c] = place]
    /\ UNCHANGED <<running, server_socket, stopping, tasks, worker, peer, shut, Others>>

\* recv times out on a silent peer (SO_RCVTIMEO, EAGAIN): sleep and continue
RecvTimeout(c) == client[c] = "recv" /\ peer[c] = "open" /\ InLoop(c, "sleeping")

\* the sleep is over: recv is called again
RecvRetry(c) == client[c] = "sleeping" /\ InLoop(c, "recv")

\* recv returns bytes of the peer: the frames are processed
RecvBytes(c) == client[c] = "recv" /\ peer[c] = "open" /\ InLoop(c, "processing")

\* every reply was sent: back to recv
Replied(c) == client[c] = "processing" /\ InLoop(c, "recv")

\* sendAll fails, or the buffer is over its limit
SendFails(c) == client[c] = "processing" /\ CloseConn(c)

\* recv returns 0: the peer has closed
PeerClosedSeen(c) == client[c] = "recv" /\ peer[c] = "closed" /\ CloseConn(c)

\* recv fails with another error
RecvFails(c) == client[c] = "recv" /\ CloseConn(c)

\* the peer closes its end
PeerCloses(c) ==
    /\ client[c] \notin {"none", "closed"}
    /\ peer[c] = "open"
    /\ peer' = [peer EXCEPT ![c] = "closed"]
    /\ UNCHANGED <<running, server_socket, stopping, tasks, worker, client, shut, Others>>

\* shutdown is called: running.store(false)
ShutdownStart ==
    /\ shut = "idle"
    /\ running' = FALSE
    /\ shut' = "cleared"
    /\ UNCHANGED <<server_socket, stopping, tasks, worker, client, peer, Others>>

\* the listening socket is closed and ThreadPool::shutdown sets stopping
ShutdownStopPool ==
    /\ shut = "cleared"
    /\ server_socket' = "closed"
    /\ stopping' = TRUE
    /\ shut' = "joining"
    /\ UNCHANGED <<running, tasks, worker, client, peer, Others>>

\* every worker is joined; the store is dumped and shutdown returns
ShutdownReturn ==
    /\ shut = "joining"
    /\ \A w \in Workers : worker[w] = Exited
    /\ shut' = "returned"
    /\ UNCHANGED <<running, server_socket, stopping, tasks, worker, client, peer, Others>>

\* the steps of the handler of c that need nothing from the peer
HandlerRuns(c) == RecvTimeout(c) \/ RecvRetry(c) \/ Replied(c) \/ PeerClosedSeen(c)

NextServer ==
    \/ \E c \in Clients : Accept(c)
    \/ \E c \in Clients : EnqueueHandler(c)
    \/ \E w \in Workers : WorkerTake(w)
    \/ \E w \in Workers : WorkerExit(w)
    \/ \E c \in Clients : RecvTimeout(c)
    \/ \E c \in Clients : RecvRetry(c)
    \/ \E c \in Clients : RecvBytes(c)
    \/ \E c \in Clients : Replied(c)
    \/ \E c \in Clients : SendFails(c)
    \/ \E c \in Clients : PeerClosedSeen(c)
    \/ \E c \in Clients : RecvFails(c)
    \/ \E c \in Clients : PeerCloses(c)
    \/ ShutdownStart
    \/ ShutdownStopPool
    \/ ShutdownReturn

\* every thread that can run does run: the accept loop once accept has
\* returned, the handlers, the workers and the thread inside shutdown; the
\* peers and the caller of shutdown owe nothing
FairServer ==
    /\ \A c \in Clients : WF_vars(EnqueueHandler(c))
    /\ \A c \in Clients : WF_vars(HandlerRuns(c))
    /\ \A w \in Workers : WF_vars(WorkerTake(w) \/ WorkerExit(w))
    /\ WF_vars(ShutdownStopPool \/ ShutdownReturn)

SpecServer == InitDB /\ [][NextServer]_vars /\ FairServer

\* C20: once running is cleared, eventually every handler that was started or
\* queued has closed its socket and shutdown has returned, whatever the peers
\* do.
C20_ShutdownTerminates ==
    (~running) ~>
        (shut = "returned"
         /\ \A c \in Clients : client[c] \notin {"queued", "recv", "sleeping", "processing"})

---------------------------------------------------------------------------
\* the error reply to an unknown command, without its CRLF
ERR_unknown_command ==
    <<"-", "E", "R", "R", " ", "u", "n", "k", "n", "o", "w", "n", " ",
      "c", "o", "m", "m", "a", "n", "d">>

\* C23: in every state a frame whose first token (FOO) is not a recognized
\* command is answered with exactly -ERR unknown command CRLF and leaves the
\* store unchanged, and a PING frame that follows it on the connection is
\* answered +PONG.
C23_UnknownCommandReply ==
    LET r == processCommand(buildRESP(<<Word.FOO>>), DB, last_sweep, now)
        p == ProcessFrames(<<buildRESP(<<Word.FOO>>), buildRESP(<<Cmd.PING>>)>>,
                           DB, last_sweep, now, 1, 0)
    IN  /\ r.reply = ERR_unknown_command \o CRLF
        /\ r.db = DB
        /\ p.out = <<ERR_unknown_command \o CRLF, simpleString(Txt.PONG)>>

\* C24: in every state, whatever k holds (a string, a list, a hash, an expiry
\* entry), after set(k, v) the list store and the hash store do not hold k,
\* k has no expiry entry, and ttl(k) returns -1.
C24_SetClearsOtherTypes ==
    \A k \in Keys, v \in SetVals :
        LET after == set(DB, k, v).db
        IN  /\ ~Has(after.list_store, k)
            /\ ~Has(after.hash_store, k)
            /\ ~Has(after.expiry_map, k)
            /\ ttl(after, k, now).ret = -1

\* C25: in every state hset(k, f, v) returns true exactly when the hash of k
\* had no field f before the call, and the reply to HSET k f v is :1 when the
\* field is new and :0 when it was overwritten.
C25_HsetReportsNewField ==
    \A k \in Keys, f \in HashFields, v \in HashVals :
        LET new == Field(DB, k, f) = "absent"
        IN  /\ hset(DB, k, f, v, now).ret = new
            /\ processCommand(buildRESP(<<Cmd.HSET, k, f, v>>), DB, last_sweep, now).reply
                   = integerReply(IF new THEN 1 ELSE 0)

---------------------------------------------------------------------------
(* Persistence specification: the persistence thread of main with its      *)
(* timed wait, the shutdown sequence of main, and requestShutdown called   *)
(* from the signal handler; each of them dumps the store.                  *)

Elsewhere ==
    <<dbvars, connvars, buildvars, server_socket, stopping, tasks, worker, client, peer, shut,
      poolvars, sweepvars, session>>

Goto(t, place, safe) == pc' = [pc EXCEPT ![t] = At(place, safe)]

Stands(t, place) == pc[t].at = place

\* a dump is in progress: the flag is set or the file is open
InProgress == dumpInProgress \/ writing # {}

\* while (persistRunning.load())
PersistLoop ==
    /\ Stands("persist", "loop")
    /\ Goto("persist", IF persistRunning THEN "pred" ELSE "exit", FALSE)
    /\ UNCHANGED <<running, persistRunning, dumpInProgress, dumpMutex, db_mutex, writing,
                   overlapped, snapshot, Elsewhere>>

\* wait_for evaluates its predicate with persistMtx held
PersistPred ==
    /\ Stands("persist", "pred")
    /\ Goto("persist", IF ~persistRunning THEN "after_wait" ELSE "about_to_wait", FALSE)
    /\ UNCHANGED <<running, persistRunning, dumpInProgress, dumpMutex, db_mutex, writing,
                   overlapped, snapshot, Elsewhere>>

\* the predicate was false: the thread releases persistMtx and blocks
PersistBlock ==
    /\ Stands("persist", "about_to_wait")
    /\ Goto("persist", "waiting", FALSE)
    /\ UNCHANGED <<running, persistRunning, dumpInProgress, dumpMutex, db_mutex, writing,
                   overlapped, snapshot, Elsewhere>>

\* a spurious wake-up: the predicate is evaluated again
PersistSpurious ==
    /\ Stands("persist", "waiting")
    /\ Goto("persist", "pred", FALSE)
    /\ UNCHANGED <<running, persistRunning, dumpInProgress, dumpMutex, db_mutex, writing,
                   overlapped, snapshot, Elsewhere>>

\* the 300 s are over: wait_for returns
PersistTimeout ==
    /\ Stands("persist", "waiting")
    /\ Goto("persist", "after_wait", FALSE)
    /\ UNCHANGED <<running, persistRunning, dumpInProgress, dumpMutex, db_mutex, writing,
                   overlapped, snapshot, Elsewhere>>

\* t calls safeDump (safe) or RedisDatabase::dump directly
CallDump(t, safe) ==
    /\ Goto(t, IF safe THEN "sd_lock" ELSE "dump_lock", safe)
    /\ overlapped' = [overlapped EXCEPT ![t] = InProgress]

\* after the wait: leave the loop on shutdown, else safeDump
PersistAfterWait ==
    /\ Stands("persist", "after_wait")
    /\ IF ~persistRunning
       THEN Goto("persist", "exit", FALSE) /\ UNCHANGED overlapped
       ELSE CallDump("persist", TRUE)
    /\ UNCHANGED <<running, persistRunning, dumpInProgress, dumpMutex, db_mutex, writing,
                   snapshot, Elsewhere>>

\* where t goes on when its dump attempt is over
AfterDump(t, safe) ==
    IF safe THEN (IF t = "persist" THEN "loop" ELSE "dtor")
    ELSE (IF t = "signal" THEN "sig_store" ELSE "done")

\* safeDump: std::lock_guard lock(dumpMutex)
SdLock(t) ==
    /\ Stands(t, "sd_lock")
    /\ dumpMutex = "free"
    /\ dumpMutex' = t
    /\ Goto(t, "sd_flag", TRUE)
    /\ UNCHANGED <<running, persistRunning, dumpInProgress, db_mutex, writing, overlapped,
                   snapshot, Elsewhere>>

\* safeDump: if (dumpInProgress.exchange(true)) return false;
SdFlag(t) ==
    /\ Stands(t, "sd_flag")
    /\ dumpInProgress' = TRUE
    /\ IF dumpInProgress
       THEN dumpMutex' = "free" /\ Goto(t, AfterDump(t, TRUE), FALSE)
       ELSE UNCHANGED dumpMutex /\ Goto(t, "dump_lock", TRUE)
    /\ UNCHANGED <<running, persistRunning, db_mutex, writing, overlapped, snapshot, Elsewhere>>

\* a dump that gives db_mutex up after each section of the file
ReleasedBetween(t) == "free"

\* dump: the lock_guard on db_mutex lives until dump returns, so the mutex
\* stays with t from one section of the file to the next
HeldAcross(t) == t

\* a variant of the lock of dump that does not wait for the holder
DbMutexIgnored(holder) == TRUE

\* dump: std::lock_guard lock(db_mutex) waits until the mutex is free
DbMutexFree(holder) == holder = "free"

\* dump takes db_mutex and opens the file, truncating it
DumpOpen(t) ==
    /\ Stands(t, "dump_lock")
    /\ DbMutexFree(db_mutex)
    /\ db_mutex' = t
    /\ writing' = writing \cup {t}
    /\ snapshot' = << >>
    /\ Goto(t, "dump_write", pc[t].safe)
    /\ UNCHANGED <<running, persistRunning, dumpInProgress, dumpMutex, overlapped, Elsewhere>>

\* dump takes db_mutex, the file cannot be opened, dump returns false
DumpOpenFails(t) ==
    /\ Stands(t, "dump_lock")
    /\ DbMutexFree(db_mutex)
    /\ Goto(t, IF pc[t].safe THEN "sd_clear" ELSE AfterDump(t, FALSE), pc[t].safe)
    /\ UNCHANGED <<running, persistRunning, dumpInProgress, dumpMutex, db_mutex, writing,
                   overlapped, snapshot, Elsewhere>>

\* dump has written the records: the file is closed, db_mutex released
DumpWritten(t) ==
    /\ Stands(t, "dump_write")
    /\ writing' = writing \ {t}
    /\ snapshot' = dump(DB)
    /\ db_mutex' = IF db_mutex = t THEN "free" ELSE db_mutex
    /\ Goto(t, IF pc[t].safe THEN "sd_clear" ELSE AfterDump(t, FALSE), pc[t].safe)
    /\ UNCHANGED <<running, persistRunning, dumpInProgress, dumpMutex, overlapped, Elsewhere>>

\* safeDump: dumpInProgress.store(false), return (dumpMutex released)
SdClear(t) ==
    /\ Stands(t, "sd_clear")
    /\ dumpInProgress' = FALSE
    /\ dumpMutex' = "free"
    /\ Goto(t, AfterDump(t, TRUE), FALSE)
    /\ UNCHANGED <<running, persistRunning, db_mutex, writing, overlapped, snapshot, Elsewhere>>

\* persistRunning.store(false)
StoreFlag(t, from, to) ==
    /\ Stands(t, from)
    /\ persistRunning' = FALSE
    /\ Goto(t, to, FALSE)
    /\ UNCHANGED <<running, dumpInProgress, dumpMutex, db_mutex, writing, overlapped, snapshot, Elsewhere>>

\* persistCv.notify_all(): a thread blocked in the wait evaluates its predicate
NotifyAll(t, from, to) ==
    /\ Stands(t, from)
    /\ pc' = [x \in Threads |->
                 IF x = t THEN At(to, FALSE)
                 ELSE IF pc[x].at = "waiting" THEN At("pred", FALSE)
                 ELSE pc[x]]
    /\ UNCHANGED <<running, persistRunning, dumpInProgress, dumpMutex, db_mutex, writing,
                   overlapped, snapshot, Elsewhere>>

\* the signal arrives: requestShutdown calls RedisServer::shutdown, which
\* clears running and stops the pool
Signal ==
    /\ Stands("signal", "idle")
    /\ running' = FALSE
    /\ Goto("signal", "shutdown", FALSE)
    /\ UNCHANGED <<persistRunning, dumpInProgress, dumpMutex, db_mutex, writing, overlapped,
                   snapshot, Elsewhere>>

\* RedisServer::shutdown dumps the store
ShutdownDump ==
    /\ Stands("signal", "shutdown")
    /\ CallDump("signal", FALSE)
    /\ UNCHANGED <<running, persistRunning, dumpInProgress, dumpMutex, db_mutex, writing,
                   snapshot, Elsewhere>>

SignalStore == StoreFlag("signal", "sig_store", "sig_notify")

SignalNotify == NotifyAll("signal", "sig_notify", "done")

\* server.run() returns once running is cleared
MainRunReturns ==
    /\ Stands("main", "run")
    /\ ~running
    /\ Goto("main", "m_store", FALSE)
    /\ UNCHANGED <<running, persistRunning, dumpInProgress, dumpMutex, db_mutex, writing,
                   overlapped, snapshot, Elsewhere>>

MainStore == StoreFlag("main", "m_store", "m_notify")

MainNotify == NotifyAll("main", "m_notify", "m_join")

\* persistenceThread.join() returns; the final safeDump
MainJoined ==
    /\ Stands("main", "m_join")
    /\ Stands("persist", "exit")
    /\ CallDump("main", TRUE)
    /\ UNCHANGED <<running, persistRunning, dumpInProgress, dumpMutex, db_mutex, writing,
                   snapshot, Elsewhere>>

\* the server goes out of scope: ~RedisServer calls shutdown, which dumps
MainDtor ==
    /\ Stands("main", "dtor")
    /\ running' = FALSE
    /\ CallDump("main", FALSE)
    /\ UNCHANGED <<persistRunning, dumpInProgress, dumpMutex, db_mutex, writing, snapshot, Elsewhere>>

NextPersist ==
    \/ PersistLoop
    \/ PersistPred
    \/ PersistBlock
    \/ PersistSpurious
    \/ PersistTimeout
    \/ PersistAfterWait
    \/ \E t \in Threads : SdLock(t)
    \/ \E t \in Threads : SdFlag(t)
    \/ \E t \in Threads : DumpOpen(t)
    \/ \E t \in Threads : DumpOpenFails(t)
    \/ \E t \in Threads : DumpWritten(t)
    \/ \E t \in Threads : SdClear(t)
    \/ Signal
    \/ ShutdownDump
    \/ SignalStore
    \/ SignalNotify
    \/ MainRunReturns
    \/ MainStore
    \/ MainNotify
    \/ MainJoined
    \/ MainDtor

SpecPersist == InitDB /\ [][NextPersist]_vars

\* C21: in every state at most one thread has the snapshot file open for
\* writing, whichever of the persistence thread, the final dump of main and
\* the dump of shutdown are under way.
C21_OneWriter == Cardinality(writing) <= 1

\* C21 witness: one thread is writing the file while another stands at the
\* lock of dump
C21_Witness ==
    \E t \in Threads, u \in Threads :
        t # u /\ t \in writing /\ Stands(u, "dump_lock")

\* C26: a safeDump attempt that started while another dump was in progress
\* never writes the file: it is skipped.
C26_SecondAttemptSkipped ==
    \A t \in Threads : (pc[t].safe /\ overlapped[t]) => t \notin writing

\* the shutdown notifications of requestShutdown and of main are all done
Notified ==
    /\ ~persistRunning
    /\ pc["main"].at \notin {"run", "m_store", "m_notify"}
    /\ pc["signal"].at = "done"

\* C27: once shutdown has been requested and notified, the persistence thread
\* is not left blocked in its timed wait until the 300 s deadline.
C27_WorkerWoken == ~(Notified /\ Stands("persist", "waiting"))

---------------------------------------------------------------------------
(* Pool specification: ThreadPool with tasks that return or throw, and the *)
(* callers of ThreadPool::shutdown.                                        *)

PoolRest ==
    <<dbvars, connvars, buildvars, mainvars, sweepvars, session, running, server_socket, peer,
      shut>>

\* the tasks the pool has accepted: enqueue has pushed them
Accepted == {c \in Clients : client[c] \notin {"none", "dropped"}}

\* enqueue: under queue_mutex, return if stopping, else push the task
Enqueue(c) ==
    /\ client[c] = "none"
    /\ IF stopping
       THEN client' = [client EXCEPT ![c] = "dropped"] /\ UNCHANGED tasks
       ELSE client' = [client EXCEPT ![c] = "queued"] /\ tasks' = Append(tasks, c)
    /\ UNCHANGED <<stopping, worker, poolvars, PoolRest>>

\* workerThread pops the next task, adds one to active_count and calls it
PoolTake(w) ==
    /\ worker[w] = Waiting
    /\ tasks # << >>
    /\ worker' = [worker EXCEPT ![w] = Serving(Head(tasks))]
    /\ tasks' = Tail(tasks)
    /\ client' = [client EXCEPT ![Head(tasks)] = "running"]
    /\ active_count' = active_count + 1
    /\ ran' = [ran EXCEPT ![Head(tasks)] = Append(@, w)]
    /\ UNCHANGED <<stopping, caller, PoolRest>>

\* a worker whose task lets an exception escape: the thread ends
Uncaught == Exited

\* catch (...): the worker goes back to the top of its loop
Caught == Waiting

\* the task of c is over: active_count.fetch_sub(1), the worker goes on as next
TaskEnds(c, how, next) ==
    /\ client[c] = "running"
    /\ client' = [client EXCEPT ![c] = how]
    /\ worker' = [w \in Workers |-> IF worker[w] = Serving(c) THEN next ELSE worker[w]]
    /\ active_count' = active_count - 1
    /\ UNCHANGED <<stopping, tasks, ran, caller, PoolRest>>

\* task() returns
TaskReturns(c) == TaskEnds(c, "returned", Waiting)

\* task() throws
TaskThrows(c) == TaskEnds(c, "thrown", Caught)

\* k calls ThreadPool::shutdown
PoolShutdownCall(k) ==
    /\ caller[k].at = "idle"
    /\ caller' = [caller EXCEPT ![k] = [at |-> "lock", accepted |-> Accepted]]
    /\ UNCHANGED <<stopping, tasks, worker, client, active_count, ran, PoolRest>>

\* shutdown, under queue_mutex: return if stopping is set, else set it
PoolShutdownLock(k) ==
    /\ caller[k].at = "lock"
    /\ stopping' = TRUE
    /\ caller' = [caller EXCEPT ![k].at = IF stopping THEN "returned" ELSE "joining"]
    /\ UNCHANGED <<tasks, worker, client, active_count, ran, PoolRest>>

\* shutdown has joined every worker and returns
PoolShutdownJoined(k) ==
    /\ caller[k].at = "joining"
    /\ \A w \in Workers : worker[w] = Exited
    /\ caller' = [caller EXCEPT ![k].at = "returned"]
    /\ UNCHANGED <<stopping, tasks, worker, client, active_count, ran, PoolRest>>

NextPool ==
    \/ \E c \in Clients : Enqueue(c)
    \/ \E w \in Workers : PoolTake(w)
    \/ \E w \in Workers : WorkerExit(w)
    \/ \E c \in Clients : TaskReturns(c)
    \/ \E c \in Clients : TaskThrows(c)
    \/ \E k \in Callers : PoolShutdownCall(k)
    \/ \E k \in Callers : PoolShutdownLock(k)
    \/ \E k \in Callers : PoolShutdownJoined(k)

SpecPool == InitDB /\ [][NextPool]_vars

\* C28: when a call of shutdown has returned, every task the pool had accepted
\* before that call has been executed exactly once and is over; a worker has
\* exited only with stopping set and the queue empty.
C28_AcceptedRunOnce ==
    /\ \A k \in Callers : caller[k].at = "returned" =>
          \A c \in caller[k].accepted :
              Len(ran[c]) = 1 /\ client[c] \in {"returned", "thrown"}
    /\ \A w \in Workers : worker[w] = Exited => (stopping /\ tasks = << >>)

\* C29: the active count is the number of workers inside a task, so it is
\* back at its earlier value after a task that threw; the worker whose task
\* threw has not ended, unless it exited from a stopping pool with an empty
\* queue.
C29_ThrowIsolated ==
    /\ active_count = Cardinality({w \in Workers : worker[w] \notin {Waiting, Exited}})
    /\ \A c \in Clients : client[c] = "thrown" =>
          \A i \in 1 .. Len(ran[c]) :
              /\ worker[ran[c][i]] # Serving(c)
              /\ worker[ran[c][i]] = Exited => (stopping /\ tasks = << >>)

\* C29 witness: the worker whose task threw is running a later task, and both
\* a task of another worker and the pool's count are as without the throw
C29_Witness ==
    \E c \in Clients, d \in Clients :
        /\ client[c] = "thrown" /\ client[d] = "running"
        /\ ran[c] = ran[d] /\ active_count = 1

---------------------------------------------------------------------------
(* Sweep specification: handler threads inside keys(), each running        *)
(* maybeFullPurge statement by statement, and the clock.                   *)

SweepRest == <<connvars, buildvars, srvvars, mainvars, poolvars, session>>

Step(x, place) == sweeper' = [sweeper EXCEPT ![x].at = place]

\* keys() is called; maybeFullPurge: auto now = sys_clock::now()
SweepClock(x) ==
    /\ sweeper[x].at = "idle"
    /\ sweeper' = [sweeper EXCEPT ![x] = [at |-> "check", now |-> now]]
    /\ UNCHANGED <<dbvars, sweeps, SweepRest>>

\* maybeFullPurge: if (now - last_sweep < SWEEP_INTERVAL) return; no lock is held
SweepCheck(x) ==
    /\ sweeper[x].at = "check"
    /\ Step(x, IF sweeper[x].now - last_sweep < Ms(SWEEP_INTERVAL) THEN "list" ELSE "store")
    /\ UNCHANGED <<dbvars, sweeps, SweepRest>>

\* maybeFullPurge: last_sweep = now; no lock is held
SweepStore(x) ==
    /\ sweeper[x].at = "store"
    /\ last_sweep' = sweeper[x].now
    /\ Step(x, "purge")
    /\ UNCHANGED <<kv_store, list_store, hash_store, expiry_map, now, sweeps, SweepRest>>

\* maybeFullPurge: under db_mutex, purgeExpired_locked()
SweepPurge(x) ==
    /\ sweeper[x].at = "purge"
    /\ LET d == purgeExpired_locked(DB, now)
       IN  /\ kv_store' = d.kv_store /\ list_store' = d.list_store
           /\ hash_store' = d.hash_store /\ expiry_map' = d.expiry_map
    /\ sweeps' = Append(sweeps, sweeper[x].now)
    /\ Step(x, "list")
    /\ UNCHANGED <<last_sweep, now, SweepRest>>

\* keys: under db_mutex, the keys are collected and returned
SweepList(x) ==
    /\ sweeper[x].at = "list"
    /\ Step(x, "idle")
    /\ UNCHANGED <<dbvars, sweeps, SweepRest>>

\* a key with a deadline of one second is stored between two calls of keys()
SweepSetex(k) ==
    /\ ~Exists(DB, k)
    /\ LET d == expire(set(DB, k, <<"a">>).db, k, 1, now).db
       IN  /\ kv_store' = d.kv_store /\ list_store' = d.list_store
           /\ hash_store' = d.hash_store /\ expiry_map' = d.expiry_map
    /\ UNCHANGED <<last_sweep, now, sweepvars, SweepRest>>

\* half a second passes
SweepTick ==
    /\ now < MaxSweepTicks * Ms(TickMs)
    /\ now' = now + Ms(TickMs)
    /\ UNCHANGED <<kv_store, list_store, hash_store, expiry_map, last_sweep, sweepvars, SweepRest>>

NextSweep ==
    \/ \E x \in Sweepers : SweepClock(x)
    \/ \E x \in Sweepers : SweepCheck(x)
    \/ \E x \in Sweepers : SweepStore(x)
    \/ \E x \in Sweepers : SweepPurge(x)
    \/ \E x \in Sweepers : SweepList(x)
    \/ \E k \in Keys : SweepSetex(k)
    \/ SweepTick

SpecSweep == InitDB /\ [][NextSweep]_vars

\* C30: any two full sweeps that were executed acted on clock readings at
\* least SWEEP_INTERVAL apart.
C30_SweepOncePerInterval ==
    \A i \in 1 .. Len(sweeps), j \in 1 .. Len(sweeps) :
        i < j => (sweeps[j] - sweeps[i] >= Ms(SWEEP_INTERVAL)
                  \/ sweeps[i] - sweeps[j] >= Ms(SWEEP_INTERVAL))

---------------------------------------------------------------------------
(* Concurrent clients: each client connects, sends SET on a key of its own *)
(* and reads the reply, then sends GET on that key and reads the reply     *)
(* (workerThread of test_redis_client.cpp); each connection has its own    *)
(* handleClient, and the handlers' commands interleave on the one store.   *)

SessionRest == <<now, connvars, buildvars, srvvars, mainvars, poolvars, sweepvars>>

\* the key and the value of client c
KeyOf(c) == <<"k">> \o to_string(c)

ValOf(c) == <<"v">> \o to_string(c)

\* sendCommand, first half: the client sends its next request
ClientSends(c) ==
    /\ session[c].step \in {"start", "set_done"}
    /\ session' = [session EXCEPT
           ![c].wire = @ \o (IF session[c].step = "start"
                             THEN buildRESP(<<Cmd.SET, KeyOf(c), ValOf(c)>>)
                             ELSE buildRESP(<<Cmd.GET, KeyOf(c)>>)),
           ![c].step = IF session[c].step = "start" THEN "set_sent" ELSE "get_sent"]
    /\ UNCHANGED <<kv_store, list_store, hash_store, expiry_map, last_sweep, SessionRest>>

\* handleClient of c: recv returns the bytes that have arrived, they are
\* appended to the buffer, and splitFrames gives the frames to process
ServeRecv(c) ==
    /\ session[c].wire # << >>
    /\ session[c].pending = << >>
    /\ session' = [session EXCEPT
           ![c].buffer = @ \o session[c].wire,
           ![c].wire = << >>,
           ![c].pending = splitFrames(session[c].buffer \o session[c].wire)]
    /\ UNCHANGED <<kv_store, list_store, hash_store, expiry_map, last_sweep, SessionRest>>

\* handleClient of c: the next frame goes to processCommand, the reply to sendAll
ServeFrame(c) ==
    /\ session[c].pending # << >>
    /\ LET r == processCommand(Head(session[c].pending), DB, last_sweep, now)
       IN  /\ kv_store' = r.db.kv_store /\ list_store' = r.db.list_store
           /\ hash_store' = r.db.hash_store /\ expiry_map' = r.db.expiry_map
           /\ last_sweep' = r.last_sweep
           /\ session' = [session EXCEPT ![c].pending = Tail(@),
                                         ![c].inbox = @ \o r.reply]
    /\ UNCHANGED SessionRest

\* sendCommand, second half: the client's recv returns what the server has
\* sent so far, and that is the response to the command
ClientRecv(c) ==
    /\ session[c].step \in {"set_sent", "get_sent"}
    /\ session[c].inbox # << >>
    /\ session' = [session EXCEPT
           ![c].inbox = << >>,
           ![c].got = IF session[c].step = "get_sent" THEN session[c].inbox ELSE @,
           ![c].step = IF session[c].step = "get_sent" THEN "done" ELSE "set_done"]
    /\ UNCHANGED <<kv_store, list_store, hash_store, expiry_map, last_sweep, SessionRest>>

NextSession ==
    \/ \E c \in Clients : ClientSends(c)
    \/ \E c \in Clients : ServeRecv(c)
    \/ \E c \in Clients : ServeFrame(c)
    \/ \E c \in Clients : ClientRecv(c)

SpecSession == InitDB /\ [][NextSession]_vars

\* C22: every client that has read the response to its GET has read the
\* value it set, as a bulk string.
C22_ConcurrentSetGet ==
    \A c \in Clients :
        session[c].step = "done" => session[c].got = bulkString(ValOf(c))

---------------------------------------------------------------------------
(* The store under the operations that create and remove keys, set and     *)
(* clear deadlines and let time pass: those of SpecDB without incr, with   *)
(* one value for set.                                                      *)

NextExpiry ==
    \/ Tick
    \/ FlushAll
    \/ KeysOp
    \/ \E k \in Keys : Set(k, <<"a">>)
    \/ \E k \in Keys : Get(k)
    \/ \E k \in Keys : Del(k)
    \/ \E k \in Keys : Type(k)
    \/ \E k \in Keys, s \in Seconds : Expire(k, s)
    \/ \E k \in Keys : Ttl(k)
    \/ \E o \in Keys, n \in Keys : Rename(o, n)
    \/ \E k \in Keys, v \in ListVals : Lpush(k, v)
    \/ \E k \in Keys : Lpop(k)
    \/ \E k \in Keys, f \in Fields, v \in ListVals : Hset(k, f, v)
    \/ \E k \in Keys, f \in Fields : Hdel(k, f)

SpecExpiry == InitDB /\ [][NextExpiry]_vars

---------------------------------------------------------------------------
(* rename of an absent key, and the expiry table against the stores *)

\* C37: rename(old, new) with old in none of the stores returns false and
\* leaves the stores and the expiry table as they were.
C37_RenameAbsent ==
    \A o \in Keys, n \in Keys :
        ~Exists(DB, o) =>
            LET r == rename(DB, o, n)
            IN  ~r.ret /\ r.db = DB

\* every key of the expiry table of db is in one of the three stores
Orphanless(db) == \A k \in DOMAIN db.expiry_map : Exists(db, k)

\* the store after any one operation on db at time t keeps the property:
\* the operations on keys and strings
KeyOpsKeep(db, sweep, t) ==
    /\ Orphanless(flushAll(db).db)
    /\ Orphanless(keys(db, sweep, t).db)
    /\ \A k \in Keys :
          /\ \A v \in SetVals : Orphanless(set(db, k, v).db)
          /\ Orphanless(get(db, k, t).db)
          /\ Orphanless(del(db, k).db)
          /\ Orphanless(type(db, k, t).db)
          /\ \A s \in Seconds : Orphanless(expire(db, k, s, t).db)
          /\ Orphanless(ttl(db, k, t).db)
          /\ \A n \in Keys : Orphanless(rename(db, k, n).db)
          /\ Orphanless(incr(db, k, t).db)

\* the operations on lists and hashes
ContainerOpsKeep(db, t) ==
    \A k \in Keys :
        /\ \A v \in ListVals :
              /\ Orphanless(lpush(db, k, v, t).db)
              /\ Orphanless(rpush(db, k, v, t).db)
              /\ \A n \in Counts : Orphanless(lrem(db, k, n, v, t).db)
              /\ \A i \in Indexes : Orphanless(lset(db, k, i, v, t).db)
        /\ Orphanless(lpop(db, k, t).db)
        /\ Orphanless(rpop(db, k, t).db)
        /\ \A f \in Fields :
              /\ \A v \in ListVals : Orphanless(hset(db, k, f, v, t).db)
              /\ Orphanless(hdel(db, k, f, t).db)

\* C38: in every state reached from the empty store by store operations, and
\* after any one further operation, every key of the expiry table is in at
\* least one of the three stores.
C38_ExpiryKeysStored ==
    /\ Orphanless(DB)
    /\ KeyOpsKeep(DB, last_sweep, now)
    /\ ContainerOpsKeep(DB, now)

\* C38 witness: a stored key has an unexpired expiry entry, and del removes
\* the key together with that entry
C38_Witness ==
    \E k \in Keys :
        /\ Exists(DB, k) /\ Has(expiry_map, k) /\ ~Expired(DB, k, now)
        /\ del(DB, k).ret
        /\ ~Has(del(DB, k).db.expiry_map, k)

---------------------------------------------------------------------------
(* INCR with the width of long long.  A long long is held as its sign and  *)
(* the decimal digits of its magnitude, so that 2^63 - 1 and its           *)
(* neighbours are values of the model.                                     *)

LLONG_MAX_digits ==
    <<"9", "2", "2", "3", "3", "7", "2", "0", "3", "6", "8", "5", "4", "7", "7", "5", "8", "0", "7">>

LLONG_MIN_digits ==
    <<"9", "2", "2", "3", "3", "7", "2", "0", "3", "6", "8", "5", "4", "7", "7", "5", "8", "0", "8">>

\* the digits at the front of s
RECURSIVE DigitPrefix(_)
DigitPrefix(s) ==
    IF s # << >> /\ IsDigit(Head(s)) THEN <<Head(s)>> \o DigitPrefix(Tail(s)) ELSE << >>

RECURSIVE StripZeros(_)
StripZeros(m) == IF Len(m) > 1 /\ Head(m) = "0" THEN StripZeros(Tail(m)) ELSE m

\* a < b for magnitudes without leading zeros
MagLess(a, b) ==
    \/ Len(a) < Len(b)
    \/ /\ Len(a) = Len(b)
       /\ \E i \in 1..Len(a) :
             /\ DigitVal(a[i]) < DigitVal(b[i])
             /\ \A j \in 1..(i - 1) : a[j] = b[j]

RECURSIVE MagInc(_)
MagInc(m) ==
    IF m = << >> THEN <<"1">>
    ELSE IF m[Len(m)] = "9" THEN MagInc(SubSeq(m, 1, Len(m) - 1)) \o <<"0">>
    ELSE SubSeq(m, 1, Len(m) - 1) \o <<Digits[DigitVal(m[Len(m)]) + 2]>>

\* m - 1 for a magnitude m > 0, leading zeros kept
RECURSIVE MagBorrow(_)
MagBorrow(m) ==
    IF m[Len(m)] = "0" THEN MagBorrow(SubSeq(m, 1, Len(m) - 1)) \o <<"9">>
    ELSE SubSeq(m, 1, Len(m) - 1) \o <<Digits[DigitVal(m[Len(m)])]>>

MagDec(m) == StripZeros(MagBorrow(m))

LL(neg, mag) == [neg |-> neg /\ mag # <<"0">>, mag |-> mag]

\* the value has the magnitude mag: does it fit a long long?
InLongLong(neg, mag) ==
    IF neg THEN ~MagLess(LLONG_MIN_digits, mag) ELSE ~MagLess(LLONG_MAX_digits, mag)

\* std::stoll: leading white space, an optional sign, then digits; what
\* follows the digits is ignored; no digit throws invalid_argument, a value
\* outside long long throws out_of_range
stoll_digits(neg, mag) ==
    IF InLongLong(neg, mag) THEN [ok |-> TRUE, val |-> LL(neg, mag)]
    ELSE [ok |-> FALSE, val |-> LL(FALSE, <<"0">>)]

stoll_signed(neg, d) ==
    IF d = << >> \/ ~IsDigit(Head(d)) THEN [ok |-> FALSE, val |-> LL(FALSE, <<"0">>)]
    ELSE stoll_digits(neg, StripZeros(DigitPrefix(d)))

stoll_trimmed(t) ==
    IF t # << >> /\ Head(t) \in {"-", "+"} THEN stoll_signed(Head(t) = "-", Tail(t))
    ELSE stoll_signed(FALSE, t)

stoll(s) == stoll_trimmed(SkipSpace(s))

\* std::to_string(long long)
ll_to_string(v) == IF v.neg THEN <<"-">> \o v.mag ELSE v.mag

\* what the build makes of "v += 1" at LLONG_MAX, a signed overflow (undefined
\* behaviour): the sum wraps around to LLONG_MIN, or the addition traps
OverflowOutcomes == {"wraps", "traps"}

\* v += 1 away from LLONG_MAX
ll_add1(v) ==
    IF v.neg THEN LL(TRUE, MagDec(v.mag)) ELSE LL(FALSE, MagInc(v.mag))

\* incr once stoll has returned v for the string of key
incr_ll_add(db, key, v, overflow) ==
    IF ~v.neg /\ v.mag = LLONG_MAX_digits
    THEN IF overflow = "traps"
         THEN [db |-> db, ret |-> FALSE, value |-> << >>, aborted |-> TRUE]
         ELSE [db  |-> [db EXCEPT !.kv_store = Put(@, key, ll_to_string(LL(TRUE, LLONG_MIN_digits)))],
               ret |-> TRUE, value |-> ll_to_string(LL(TRUE, LLONG_MIN_digits)),
               aborted |-> FALSE]
    ELSE [db  |-> [db EXCEPT !.kv_store = Put(@, key, ll_to_string(ll_add1(v)))],
          ret |-> TRUE, value |-> ll_to_string(ll_add1(v)), aborted |-> FALSE]

incr_ll_parsed(db, key, p, overflow) ==
    IF ~p.ok THEN [db |-> db, ret |-> FALSE, value |-> << >>, aborted |-> FALSE]
    ELSE incr_ll_add(db, key, p.val, overflow)

incr_ll_checked(db, key, overflow) ==
    IF ~Has(db.kv_store, key)
    THEN [db |-> [db EXCEPT !.kv_store = Put(@, key, <<"1">>)], ret |-> TRUE, value |-> <<"1">>,
          aborted |-> FALSE]
    ELSE incr_ll_parsed(db, key, stoll(trim(db.kv_store[key])), overflow)

\* RedisDatabase::incr with `out` as the decimal text of the long long
incr_ll(db, key, t, overflow) == incr_ll_checked(checkExpired(db, key, t).db, key, overflow)

\* the strings set before an incr: small integers, the ends of long long and
\* their neighbours, a number past long long, a word
LongVals ==
    {<<"0">>, <<"-", "1">>, <<"9", "9">>, <<"-", "1", "0">>,
     LLONG_MAX_digits, MagDec(LLONG_MAX_digits), <<"-">> \o LLONG_MIN_digits,
     LLONG_MIN_digits, <<"x", "x">>}

\* incr on a key that is missing or holds one of the strings above
IncrLong(k, overflow) ==
    /\ Has(kv_store, k) => kv_store[k] \in LongVals
    /\ ~incr_ll(DB, k, now, overflow).aborted
    /\ Ran(incr_ll(DB, k, now, overflow))
    /\ UNCHANGED last_sweep

\* the addition traps: the process ends, the store is as it was
IncrTraps(k) ==
    /\ Has(kv_store, k) => kv_store[k] \in LongVals
    /\ incr_ll(DB, k, now, "traps").aborted
    /\ UNCHANGED vars

NextLong ==
    \/ \E k \in Keys, v \in LongVals : Set(k, v)
    \/ \E k \in Keys, o \in OverflowOutcomes : IncrLong(k, o)
    \/ \E k \in Keys : IncrTraps(k)
    \/ \E k \in Keys : Del(k)

SpecLong == InitDB /\ [][NextLong]_vars

\* s is the decimal text of a long long: an optional minus sign, digits
\* without leading zeros, magnitude within long long
IsLongLongText(s) ==
    /\ IsIntegerText(s)
    /\ s \notin {<<"-", "0">>}
    /\ LET neg == Head(s) = "-"
           mag == IF neg THEN Tail(s) ELSE s
       IN  StripZeros(mag) = mag /\ InLongLong(neg, mag)

\* the decimal text of n + 1 for the decimal text s of n
TextPlusOne(s) ==
    IF Head(s) = "-"
    THEN (IF Tail(s) = <<"1">> THEN <<"0">> ELSE <<"-">> \o MagDec(Tail(s)))
    ELSE MagInc(s)

\* C35: on a key that holds the decimal text of a long long n, incr succeeds,
\* returns n + 1, which is a long long, and stores its decimal text; at
\* n = 2^63 - 1 the result is not negative.  For every outcome of the build.
C35_IncrLongLong ==
    \A k \in Keys, o \in OverflowOutcomes :
        (Has(kv_store, k) /\ ~Expired(DB, k, now) /\ IsLongLongText(kv_store[k])) =>
            LET r == incr_ll(DB, k, now, o)
            IN  /\ r.ret /\ ~r.aborted
                /\ r.value = TextPlusOne(kv_store[k])
                /\ IsLongLongText(r.value)
                /\ r.db.kv_store[k] = r.value
                /\ Head(r.value) # "-" \/ Head(kv_store[k]) = "-"

---------------------------------------------------------------------------
(* Framing limits: requests whose headers carry a count or a length that   *)
(* the protocol forbids, sent among valid requests                         *)

\* a multi-bulk header with N = 1,000,001 and one with N = -1
CountTooLarge == arrayHeader(1000 * 1000 + 1)
CountNegative == arrayHeader(0 - 1)

\* a request of one bulk whose header carries L = 512 MiB + 1, and one with
\* L = -1
LengthTooLarge == arrayHeader(1) \o <<"$">> \o to_string(512 * 1024 * 1024 + 1) \o CRLF
LengthNegative == arrayHeader(1) \o nilBulk

LimitViolations == {CountTooLarge, CountNegative, LengthTooLarge, LengthNegative}

LimitSeqs == UNION {[1..n -> {ReqPING} \cup LimitViolations] : n \in 1..MaxFrames}

InitLimits ==
    /\ kv_store = EmptyMap /\ list_store = EmptyMap
    /\ hash_store = EmptyMap /\ expiry_map = EmptyMap
    /\ now = 0
    /\ last_sweep = 0 - Ms(SWEEP_INTERVAL)
    /\ requests \in LimitSeqs
    /\ sent = 0 /\ recvs = 0 /\ buffer = << >> /\ replies = << >>
    /\ dispatched = << >> /\ framed = << >> /\ conn = "reading"
    /\ neg_int_min = -INT_MAX - 1
    /\ ServerUp
    /\ MainUp
    /\ PoolUp
    /\ SweepUp
    /\ SessionsUp

SpecLimits == InitLimits /\ [][NextConn]_vars

\* request i is the first of the connection that violates a limit, and the
\* handler has read it whole without a failed send
FirstViolationRead(i) ==
    /\ requests[i] \in LimitViolations
    /\ \A j \in 1..(i - 1) : requests[j] \notin LimitViolations
    /\ sent >= Len(Flatten(SubSeq(requests, 1, i)))
    /\ conn # "send_failed"

\* C32: once the handler has read a header whose element count is outside
\* 0..1,000,000 or whose bulk length is outside 0..512 MiB, framing on the
\* connection has ended with an error reply: the handler is not reading on for
\* more input, the requests before it were framed and answered, the reply after
\* them is an error, and the framer returned nothing of the violating request.
C32_LimitEndsFraming ==
    \A i \in 1..Len(requests) :
        FirstViolationRead(i) =>
            /\ conn # "reading"
            /\ framed = SubSeq(requests, 1, i - 1)
            /\ Len(replies) = i
            /\ Head(replies[i]) = "-"

\* C33: when the handler is back at recv after an iteration of its loop, the
\* bytes of the frames it has dispatched have left the input buffer: the
\* buffer holds only the incomplete tail of the stream, the bytes received
\* behind the last complete request, in which the framer finds no frame.
C33_FramesLeaveBuffer ==
    (conn = "reading" /\ recvs > 0) =>
        /\ splitFrames(buffer) = << >>
        /\ Len(buffer) < Len(Stream)

---------------------------------------------------------------------------
(* One request on a connection, delivered in pieces *)

InitPrefix == InitConn /\ Len(requests) = 1

SpecPrefix == InitPrefix /\ [][NextConn]_vars

\* a read after which the handler holds a proper prefix of the request
PrefixRead ==
    /\ sent' > sent
    /\ Len(buffer') < Len(requests[1])
    /\ buffer' = SubSeq(requests[1], 1, Len(buffer'))

\* the iteration of the read loop on a partial request: no frame, no reply,
\* nothing dispatched, the connection stays open
ReadsOn ==
    /\ framed' = framed
    /\ dispatched' = dispatched
    /\ replies' = replies
    /\ conn' = "reading"

\* a read that brings the remaining bytes of a request held in part
CompletingRead ==
    /\ sent' > sent
    /\ sent > 0
    /\ buffer' = requests[1]

Served(c) == client[c] \in {"recv", "sleeping", "processing", "closed"}

\* C39: every socket that accept has returned is eventually in the hands of a
\* connection handler, which closes it when it terminates, or is closed; also
\* a socket accepted while the pool is stopping.
C39_AcceptedSocketServed ==
    \A c \in Clients : (client[c] = "accepted") ~> Served(c)

\* C40: ThreadPool::shutdown has returned to a caller only when every worker
\* thread has exited, whichever of the two callers it is and however their
\* calls overlap.
C40_ShutdownJoinsAll ==
    \A k \in Callers : caller[k].at = "returned" => \A w \in Workers : worker[w] = Exited

---------------------------------------------------------------------------
(* Orderly shutdown: the accept loop of main, the handlers in the pool, the *)
(* persistence thread, RedisServer::shutdown called from the signal handler *)
(* and again from the destructor at the end of main, with their dumps.      *)

FinalRest == <<dbvars, connvars, buildvars, poolvars, sweepvars, session>>

\* the accept loop runs in main while main is inside server.run()
AcceptInRun(c) == Stands("main", "run") /\ Accept(c)

EnqueueInRun(c) == Stands("main", "run") /\ EnqueueHandler(c)

\* RedisServer::shutdown entered by t: running is cleared and the listening
\* socket closed
ShutdownEnter(t, from) ==
    /\ Stands(t, from)
    /\ running' = FALSE
    /\ server_socket' = "closed"
    /\ Goto(t, "pool_shutdown", FALSE)
    /\ UNCHANGED <<stopping, tasks, worker, client, peer, shut, persistRunning, dumpInProgress,
                   dumpMutex, db_mutex, writing, overlapped, snapshot, FinalRest>>

\* ThreadPool::shutdown under queue_mutex: return if stopping is set, else
\* set it and go on to join the workers
PoolStop(t) ==
    /\ Stands(t, "pool_shutdown")
    /\ stopping' = TRUE
    /\ Goto(t, IF stopping THEN "shutdown" ELSE "pool_join", FALSE)
    /\ UNCHANGED <<running, server_socket, tasks, worker, client, peer, shut, persistRunning,
                   dumpInProgress, dumpMutex, db_mutex, writing, overlapped, snapshot, FinalRest>>

\* the join loop of ThreadPool::shutdown is through: every worker has exited
PoolJoin(t) ==
    /\ Stands(t, "pool_join")
    /\ \A w \in Workers : worker[w] = Exited
    /\ Goto(t, "shutdown", FALSE)
    /\ UNCHANGED <<running, server_socket, stopping, tasks, worker, client, peer, shut,
                   persistRunning, dumpInProgress, dumpMutex, db_mutex, writing, overlapped,
                   snapshot, FinalRest>>

\* RedisServer::shutdown dumps the store once ThreadPool::shutdown has returned
DumpInShutdown(t) ==
    /\ Stands(t, "shutdown")
    /\ CallDump(t, FALSE)
    /\ UNCHANGED <<running, persistRunning, dumpInProgress, dumpMutex, db_mutex, writing,
                   snapshot, Elsewhere>>

\* the accept loop ends: accept fails on the closed socket with running
\* cleared, and server.run() returns
RunReturns == MainRunReturns /\ \A c \in Clients : client[c] # "accepted"

NextFinal ==
    \/ \E c \in Clients : AcceptInRun(c)
    \/ \E c \in Clients : EnqueueInRun(c)
    \/ \E w \in Workers : WorkerTake(w)
    \/ \E w \in Workers : WorkerExit(w)
    \/ \E c \in Clients : RecvBytes(c)
    \/ \E c \in Clients : Replied(c)
    \/ \E c \in Clients : PeerCloses(c)
    \/ \E c \in Clients : PeerClosedSeen(c)
    \/ ShutdownEnter("signal", "idle")
    \/ ShutdownEnter("main", "dtor")
    \/ \E t \in Callers : PoolStop(t)
    \/ \E t \in Callers : PoolJoin(t)
    \/ \E t \in Callers : DumpInShutdown(t)
    \/ \E t \in Threads : SdLock(t)
    \/ \E t \in Threads : SdFlag(t)
    \/ \E t \in Threads : DumpOpen(t)
    \/ \E t \in Threads : DumpWritten(t)
    \/ \E t \in Threads : SdClear(t)
    \/ SignalStore
    \/ SignalNotify
    \/ RunReturns
    \/ MainStore
    \/ MainNotify
    \/ MainJoined
    \/ PersistLoop
    \/ PersistPred
    \/ PersistBlock
    \/ PersistTimeout
    \/ PersistAfterWait

SpecFinal == InitDB /\ [][NextFinal]_vars

\* the handler of some client is queued or running
HandlerLeft == \E c \in Clients : client[c] \in {"accepted", "queued", "recv", "processing"}

\* C36: when main has written the dump of the destructor's shutdown, the last
\* dump before the process ends, the accept loop has exited and no connection
\* handler is queued or running: every handler had finished before that dump.
C36_LastDumpAfterHandlers ==
    Stands("main", "done") => (server_socket = "closed" /\ ~HandlerLeft)

---------------------------------------------------------------------------
(* RedisDatabase::dump section by section, beside handlers that execute     *)
(* store operations: every operation and the whole of dump run under        *)
(* db_mutex.                                                                *)

\* the threads that dump here: the persistence thread and the thread in
\* RedisServer::shutdown
Dumpers == {"persist", "signal"}

\* where a dumper stands when it is not dumping
HomeOf(t) == IF t = "persist" THEN "loop" ELSE "idle"

\* t calls RedisDatabase::dump
DumpCalled(t) ==
    /\ Stands(t, HomeOf(t))
    /\ Goto(t, "dump_lock", FALSE)
    /\ UNCHANGED <<running, persistRunning, dumpInProgress, dumpMutex, db_mutex, writing,
                   overlapped, snapshot, Elsewhere>>

\* the bytes of each section of the file, as dump writes them for db
SectionK(db) == DumpStrings(db, Enumerate(DOMAIN db.kv_store))
SectionL(db) == DumpLists(db, Enumerate(DOMAIN db.list_store))
SectionH(db) == DumpHashes(db, Enumerate(DOMAIN db.hash_store))
SectionE(db) == DumpExpiries(db, Enumerate(DOMAIN db.expiry_map))

\* dump writes one section: the loop over one of the four maps
WriteSection(t, from, to, bytes) ==
    /\ Stands(t, from)
    /\ db_mutex \in {t, "free"}
    /\ snapshot' = snapshot \o bytes
    /\ db_mutex' = HeldAcross(t)
    /\ Goto(t, to, FALSE)
    /\ UNCHANGED <<running, persistRunning, dumpInProgress, dumpMutex, writing, overlapped,
                   Elsewhere>>

WriteStrings(t) == WriteSection(t, "dump_write", "write_L", SectionK(DB))
WriteLists(t) == WriteSection(t, "write_L", "write_H", SectionL(DB))
WriteHashes(t) == WriteSection(t, "write_H", "write_E", SectionH(DB))

\* dump writes the expiry records, flushes and returns: db_mutex is released
WriteExpiries(t) ==
    /\ Stands(t, "write_E")
    /\ db_mutex \in {t, "free"}
    /\ snapshot' = snapshot \o SectionE(DB)
    /\ db_mutex' = "free"
    /\ writing' = writing \ {t}
    /\ Goto(t, HomeOf(t), FALSE)
    /\ UNCHANGED <<running, persistRunning, dumpInProgress, dumpMutex, overlapped, Elsewhere>>

\* a handler executes a store operation: it takes db_mutex first
LockedSet(k, v) == DbMutexFree(db_mutex) /\ Set(k, v)
LockedDel(k) == DbMutexFree(db_mutex) /\ Del(k)
LockedExpire(k, s) == DbMutexFree(db_mutex) /\ Expire(k, s)
LockedLpush(k, v) == DbMutexFree(db_mutex) /\ Lpush(k, v)
LockedHset(k, f, v) == DbMutexFree(db_mutex) /\ Hset(k, f, v)

\* the handlers keep strings under one key and containers under the other
StringKeys == {<<"k">>}
ContainerKeys == {<<"j">>}

NextDump ==
    \/ \E k \in StringKeys, v \in SetVals : LockedSet(k, v)
    \/ \E k \in Keys : LockedDel(k)
    \/ \E k \in Keys : LockedExpire(k, 1)
    \/ \E k \in ContainerKeys, v \in ListVals : LockedLpush(k, v)
    \/ \E k \in ContainerKeys, f \in Fields, v \in ListVals : LockedHset(k, f, v)
    \/ \E t \in Dumpers : DumpCalled(t)
    \/ \E t \in Dumpers : DumpOpen(t)
    \/ \E t \in Dumpers : WriteStrings(t)
    \/ \E t \in Dumpers : WriteLists(t)
    \/ \E t \in Dumpers : WriteHashes(t)
    \/ \E t \in Dumpers : WriteExpiries(t)

SpecDump == InitDB /\ [][NextDump]_vars

\* what a dump of db has written when the dumper stands at place
WrittenAt(db, place) ==
    IF place = "dump_write" THEN << >>
    ELSE IF place = "write_L" THEN SectionK(db)
    ELSE IF place = "write_H" THEN SectionK(db) \o SectionL(db)
    ELSE SectionK(db) \o SectionL(db) \o SectionH(db)

Dumping(t) == pc[t].at \in {"dump_write", "write_L", "write_H", "write_E"}

\* the step in which t writes the last record and dump returns
DumpReturns(t) == Stands(t, "write_E") /\ pc'[t].at # "write_E"

\* C31: while a dump is writing, the records in the file are the records of
\* the store as it is now, so no store operation has taken effect since the
\* first record; and when the last record is written the file is the dump of
\* the three stores and the expiry table as they are at that instant.
C31_SnapshotOfOneInstant ==
    /\ [](\A t \in Dumpers : Dumping(t) => snapshot = WrittenAt(DB, pc[t].at))
    /\ [][\A t \in Dumpers : DumpReturns(t) => (snapshot' = dump(DB') /\ DB' = DB)]_vars

\* a dump has written string and list records of a store with an expiry entry
\* and the expiry records are still to come
C31_Witness ==
    \E t \in Dumpers :
        /\ Stands(t, "write_E")
        /\ SectionK(DB) # << >> /\ SectionL(DB) # << >> /\ SectionE(DB) # << >>
        /\ snapshot = SectionK(DB) \o SectionL(DB) \o SectionH(DB)

=============================================================================
